---- MODULE Spec2Model ----
(***************************************************************************)
(* Six-in-a-row (liu4.2): the board rules engine (init_game, place_stone,   *)
(* check_win, undo_last_move: game.c, concatenated into src/src/fileio.c),  *)
(* the AI engine (src/src/ai.c), the session loop (run_game_internal) and   *)
(* the record round trip (save_record, parse_moves, playback_one_game).     *)
(*                                                                         *)
(* Three specifications share the variables:                               *)
(*   Spec         the rules engine and the AI called directly;             *)
(*   SessionSpec  the event handlers of a game window (clicks, the undo    *)
(*                key, the end of a round);                                *)
(*   RecordSpec   Spec, followed by saving the finished game and playing   *)
(*                the saved record back.                                   *)
(*                                                                         *)
(* SCALE.  The program is built with BOARD_SIZE 19 and WIN_LENGTH 6.  The   *)
(* model keeps both names and every formula of the code that uses them,    *)
(* but evaluates them at BOARD_SIZE = 5 and WIN_LENGTH = 4: the smallest    *)
(* scale at which a run of WIN_LENGTH-1 can have two open ends, a run can  *)
(* be longer than WIN_LENGTH, and the threat threshold WIN_LENGTH-2 is     *)
(* above 1.                                                                *)
(***************************************************************************)
EXTENDS Integers, Sequences, FiniteSets, TLC

\* game      : the GameState the operations act on
\* last      : the operation just performed, its return value and argument
\* region    : the range of history lengths the exploration covers
\* mode      : run_game_internal's mode (1 two players, 2..4 against the AI);
\*             0 when no session is running
\* game_over : run_game_internal's local flag
\* score     : the win counters score_pvp_* and score_ai_*
\* file      : the lines of liu/data/records.json
\* pb        : the state of a playback (playback_one_game)
\* resume    : liu/data/resume.json and what load_resume_game read from it
VARIABLES game, last, region, mode, game_over, score, file, pb, resume

vars == <<game, last, region, mode, game_over, score, file, pb, resume>>

(***************************************************************************)
(* Constants of include/game.h (scaled, see above).                        *)
(***************************************************************************)
BOARD_SIZE == 5

WIN_LENGTH == 4

CELL_EMPTY == 0

CELL_BLACK == 1

CELL_WHITE == 2

(***************************************************************************)
(* Bounds of the exploration.  A behaviour starts from one of the Openings *)
(* (a position reached from a new game by successive place_stone calls)    *)
(* and may take back at most MaxBack of the opening's moves and add at     *)
(* most MaxAhead moves beyond it.  MaxUndoCount caps the session's undo    *)
(* counter, MaxStop the number of moves after which a playback may be      *)
(* interrupted.                                                            *)
(***************************************************************************)
MaxBack == 1

MaxAhead == 1

MaxUndoCount == 2

MaxStop == 1

Rows == 0 .. (BOARD_SIZE - 1)

Pos == Rows \X Rows

\* Arguments a caller may pass to place_stone: in range and just out of range.
Coords == (-1) .. BOARD_SIZE

Players == {1, 2}

Max(a, b) == IF a >= b THEN a ELSE b

(***************************************************************************)
(* Rules engine                                                            *)
(***************************************************************************)

\* GameState after init_game: empty board, Black to move, no history.
init_game ==
    [ cells          |-> [p \in Pos |-> CELL_EMPTY],
      current_player |-> 1,
      finished       |-> 0,
      winner         |-> 0,
      undo_count     |-> 0,
      moves          |-> << >> ]

within_board(row, col) ==
    row >= 0 /\ row < BOARD_SIZE /\ col >= 0 /\ col < BOARD_SIZE

\* The colour place_stone and parse_moves write for a player number.
ColourOf(player) == IF player = 1 THEN CELL_BLACK ELSE CELL_WHITE

\* switch_player that leaves the turn where it is.
switch_player_stays(g) == g

switch_player(g) ==
    [g EXCEPT !.current_player = IF g.current_player = 1 THEN 2 ELSE 1]

board_full(g) == Len(g.moves) >= BOARD_SIZE * BOARD_SIZE

\* The four axes of check_win: dr[k], dc[k].
WinDirs == << <<0, 1>>, <<1, 0>>, <<1, 1>>, <<-1, 1>> >>

\* One while loop of check_win: the number of contiguous cells equal to me
\* met from (r, c) on, stepping by (dr, dc), until the board's edge or
\* another value.
RECURSIVE CountDir(_, _, _, _, _, _)
CountDir(cells, r, c, dr, dc, me) ==
    IF within_board(r, c) /\ cells[<<r, c>>] = me
    THEN 1 + CountDir(cells, r + dr, c + dc, dr, dc, me)
    ELSE 0

\* AxisCount without the second while loop (the direction against dr, dc).
AxisCount_forward_only(cells, row, col, k, me) ==
    1 + CountDir(cells, row + WinDirs[k][1], col + WinDirs[k][2],
                 WinDirs[k][1], WinDirs[k][2], me)

\* cnt of check_win for axis k: the anchor, plus both directions.
AxisCount(cells, row, col, k, me) ==
    1 + CountDir(cells, row + WinDirs[k][1], col + WinDirs[k][2],
                 WinDirs[k][1], WinDirs[k][2], me)
      + CountDir(cells, row - WinDirs[k][1], col - WinDirs[k][2],
                 -WinDirs[k][1], -WinDirs[k][2], me)

\* check_win with the last axis ('/' diagonal) left out.
check_win_three_axes(g, last_row, last_col) ==
    LET me == g.cells[<<last_row, last_col>>]
    IN  IF me = CELL_EMPTY
        THEN [game |-> g, ret |-> 0]
        ELSE IF \E k \in 1 .. 3 :
                   AxisCount(g.cells, last_row, last_col, k, me) >= WIN_LENGTH
             THEN [game |-> [g EXCEPT !.winner = me], ret |-> 1]
             ELSE [game |-> g, ret |-> 0]

\* check_win: the game (winner set when a run is found) and the return value.
check_win(g, last_row, last_col) ==
    LET me == g.cells[<<last_row, last_col>>]
    IN  IF me = CELL_EMPTY
        THEN [game |-> g, ret |-> 0]
        ELSE IF \E k \in 1 .. 4 :
                   AxisCount(g.cells, last_row, last_col, k, me) >= WIN_LENGTH
             THEN [game |-> [g EXCEPT !.winner = me], ret |-> 1]
             ELSE [game |-> g, ret |-> 0]

\* PlaceBody with the full-board test made before the win test.
PlaceBody_draw_first(g, row, col) ==
    LET g1 == [g EXCEPT !.cells[<<row, col>>] = ColourOf(g.current_player)]
        g2 == IF Len(g1.moves) < BOARD_SIZE * BOARD_SIZE
              THEN [g1 EXCEPT !.moves = Append(g1.moves,
                        [row |-> row, col |-> col, player |-> g.current_player])]
              ELSE g1
        cw == check_win(g2, row, col)
    IN  IF Len(g2.moves) = BOARD_SIZE * BOARD_SIZE
        THEN [g2 EXCEPT !.finished = 1, !.winner = 0]
        ELSE IF cw.ret # 0
             THEN [cw.game EXCEPT !.finished = 1, !.winner = g.current_player]
             ELSE switch_player(cw.game)

\* PlaceBody that credits a win to the side that did not move.
PlaceBody_winner_swapped(g, row, col) ==
    LET g1 == [g EXCEPT !.cells[<<row, col>>] = ColourOf(g.current_player)]
        g2 == IF Len(g1.moves) < BOARD_SIZE * BOARD_SIZE
              THEN [g1 EXCEPT !.moves = Append(g1.moves,
                        [row |-> row, col |-> col, player |-> g.current_player])]
              ELSE g1
        cw == check_win(g2, row, col)
    IN  IF cw.ret # 0
        THEN [cw.game EXCEPT !.finished = 1, !.winner = 3 - g.current_player]
        ELSE IF Len(g2.moves) = BOARD_SIZE * BOARD_SIZE
             THEN [cw.game EXCEPT !.finished = 1, !.winner = 0]
             ELSE switch_player(cw.game)

\* PlaceBody that records the row of a move one too high.
PlaceBody_row_off_by_one(g, row, col) ==
    LET g1 == [g EXCEPT !.cells[<<row, col>>] = ColourOf(g.current_player)]
        g2 == IF Len(g1.moves) < BOARD_SIZE * BOARD_SIZE
              THEN [g1 EXCEPT !.moves = Append(g1.moves,
                        [row |-> row + 1, col |-> col, player |-> g.current_player])]
              ELSE g1
        cw == check_win(g2, row, col)
    IN  IF cw.ret # 0
        THEN [cw.game EXCEPT !.finished = 1, !.winner = g.current_player]
        ELSE IF Len(g2.moves) = BOARD_SIZE * BOARD_SIZE
             THEN [cw.game EXCEPT !.finished = 1, !.winner = 0]
             ELSE switch_player(cw.game)

\* PlaceBody that records a move at the front of the history.
PlaceBody_prepend(g, row, col) ==
    LET g1 == [g EXCEPT !.cells[<<row, col>>] = ColourOf(g.current_player)]
        g2 == IF Len(g1.moves) < BOARD_SIZE * BOARD_SIZE
              THEN [g1 EXCEPT !.moves =
                        << [row |-> row, col |-> col, player |-> g.current_player] >>
                            \o g1.moves]
              ELSE g1
        cw == check_win(g2, row, col)
    IN  IF cw.ret # 0
        THEN [cw.game EXCEPT !.finished = 1, !.winner = g.current_player]
        ELSE IF Len(g2.moves) = BOARD_SIZE * BOARD_SIZE
             THEN [cw.game EXCEPT !.finished = 1, !.winner = 0]
             ELSE switch_player(cw.game)

\* PlaceBody that puts a Black stone down whoever is to move.
PlaceBody_black_stone(g, row, col) ==
    LET g1 == [g EXCEPT !.cells[<<row, col>>] = CELL_BLACK]
        g2 == IF Len(g1.moves) < BOARD_SIZE * BOARD_SIZE
              THEN [g1 EXCEPT !.moves = Append(g1.moves,
                        [row |-> row, col |-> col, player |-> g.current_player])]
              ELSE g1
        cw == check_win(g2, row, col)
    IN  IF cw.ret # 0
        THEN [cw.game EXCEPT !.finished = 1, !.winner = g.current_player]
        ELSE IF Len(g2.moves) = BOARD_SIZE * BOARD_SIZE
             THEN [cw.game EXCEPT !.finished = 1, !.winner = 0]
             ELSE switch_player(cw.game)

\* PlaceBody that declares the draw one move before the board is full.
PlaceBody_draw_early(g, row, col) ==
    LET g1 == [g EXCEPT !.cells[<<row, col>>] = ColourOf(g.current_player)]
        g2 == IF Len(g1.moves) < BOARD_SIZE * BOARD_SIZE
              THEN [g1 EXCEPT !.moves = Append(g1.moves,
                        [row |-> row, col |-> col, player |-> g.current_player])]
              ELSE g1
        cw == check_win(g2, row, col)
    IN  IF cw.ret # 0
        THEN [cw.game EXCEPT !.finished = 1, !.winner = g.current_player]
        ELSE IF Len(g2.moves) >= BOARD_SIZE * BOARD_SIZE - 1
             THEN [cw.game EXCEPT !.finished = 1, !.winner = 0]
             ELSE switch_player(cw.game)

\* PlaceBody that never declares a draw: a stone that fills the board
\* without a run only passes the turn.
PlaceBody_no_draw(g, row, col) ==
    LET g1 == [g EXCEPT !.cells[<<row, col>>] = ColourOf(g.current_player)]
        g2 == IF Len(g1.moves) < BOARD_SIZE * BOARD_SIZE
              THEN [g1 EXCEPT !.moves = Append(g1.moves,
                        [row |-> row, col |-> col, player |-> g.current_player])]
              ELSE g1
        cw == check_win(g2, row, col)
    IN  IF cw.ret # 0
        THEN [cw.game EXCEPT !.finished = 1, !.winner = g.current_player]
        ELSE switch_player(cw.game)

\* The part of place_stone after its three early returns.
PlaceBody(g, row, col) ==
    LET g1 == [g EXCEPT !.cells[<<row, col>>] = ColourOf(g.current_player)]
        g2 == IF Len(g1.moves) < BOARD_SIZE * BOARD_SIZE
              THEN [g1 EXCEPT !.moves = Append(g1.moves,
                        [row |-> row, col |-> col, player |-> g.current_player])]
              ELSE g1
        cw == check_win(g2, row, col)
    IN  IF cw.ret # 0
        THEN [cw.game EXCEPT !.finished = 1, !.winner = g.current_player]
        ELSE IF Len(g2.moves) = BOARD_SIZE * BOARD_SIZE
             THEN [cw.game EXCEPT !.finished = 1, !.winner = 0]
             ELSE switch_player(cw.game)

\* place_stone without the test of the target cell.
place_stone_no_occupied_check(g, row, col) ==
    IF g.finished # 0
    THEN [game |-> g, ret |-> 0]
    ELSE IF ~within_board(row, col)
         THEN [game |-> g, ret |-> 0]
         ELSE [game |-> PlaceBody(g, row, col), ret |-> 1]

\* place_stone without the test of game->finished.
place_stone_no_finished_check(g, row, col) ==
    IF ~within_board(row, col)
    THEN [game |-> g, ret |-> 0]
    ELSE IF g.cells[<<row, col>>] # CELL_EMPTY
         THEN [game |-> g, ret |-> 0]
         ELSE [game |-> PlaceBody(g, row, col), ret |-> 1]

place_stone(g, row, col) ==
    IF g.finished # 0
    THEN [game |-> g, ret |-> 0]
    ELSE IF ~within_board(row, col)
         THEN [game |-> g, ret |-> 0]
         ELSE IF g.cells[<<row, col>>] # CELL_EMPTY
              THEN [game |-> g, ret |-> 0]
              ELSE [game |-> PlaceBody(g, row, col), ret |-> 1]

\* undo_last_move that leaves the stone on the board.
undo_keeps_cell(g) ==
    IF Len(g.moves) <= 0
    THEN [game |-> g, ret |-> 0]
    ELSE LET lastm == g.moves[Len(g.moves)]
             moves1 == SubSeq(g.moves, 1, Len(g.moves) - 1)
         IN  [game |-> [g EXCEPT !.moves = moves1,
                                 !.current_player =
                                     IF Len(moves1) <= 0 THEN 1 ELSE lastm.player,
                                 !.finished = 0,
                                 !.winner = 0],
              ret |-> 1]

\* undo_last_move that does not hand the turn back to the undone mover.
undo_keeps_player(g) ==
    IF Len(g.moves) <= 0
    THEN [game |-> g, ret |-> 0]
    ELSE LET lastm == g.moves[Len(g.moves)]
             cells1 == IF within_board(lastm.row, lastm.col)
                       THEN [g.cells EXCEPT ![<<lastm.row, lastm.col>>] = CELL_EMPTY]
                       ELSE g.cells
             moves1 == SubSeq(g.moves, 1, Len(g.moves) - 1)
         IN  [game |-> [g EXCEPT !.cells = cells1,
                                 !.moves = moves1,
                                 !.finished = 0,
                                 !.winner = 0],
              ret |-> 1]

\* undo_last_move that reports success on an empty history.
undo_empty_reports_success(g) ==
    IF Len(g.moves) <= 0
    THEN [game |-> g, ret |-> 1]
    ELSE LET lastm == g.moves[Len(g.moves)]
             cells1 == IF within_board(lastm.row, lastm.col)
                       THEN [g.cells EXCEPT ![<<lastm.row, lastm.col>>] = CELL_EMPTY]
                       ELSE g.cells
             moves1 == SubSeq(g.moves, 1, Len(g.moves) - 1)
         IN  [game |-> [g EXCEPT !.cells = cells1,
                                 !.moves = moves1,
                                 !.current_player =
                                     IF Len(moves1) <= 0 THEN 1 ELSE lastm.player,
                                 !.finished = 0,
                                 !.winner = 0],
              ret |-> 1]

\* undo_last_move that leaves finished and winner as they were.
undo_keeps_finished(g) ==
    IF Len(g.moves) <= 0
    THEN [game |-> g, ret |-> 0]
    ELSE LET lastm == g.moves[Len(g.moves)]
             cells1 == IF within_board(lastm.row, lastm.col)
                       THEN [g.cells EXCEPT ![<<lastm.row, lastm.col>>] = CELL_EMPTY]
                       ELSE g.cells
             moves1 == SubSeq(g.moves, 1, Len(g.moves) - 1)
         IN  [game |-> [g EXCEPT !.cells = cells1,
                                 !.moves = moves1,
                                 !.current_player =
                                     IF Len(moves1) <= 0 THEN 1 ELSE lastm.player],
              ret |-> 1]

\* undo_last_move that hands the turn to the side that did not make the
\* undone move.
undo_turn_to_other(g) ==
    IF Len(g.moves) <= 0
    THEN [game |-> g, ret |-> 0]
    ELSE LET lastm == g.moves[Len(g.moves)]
             cells1 == IF within_board(lastm.row, lastm.col)
                       THEN [g.cells EXCEPT ![<<lastm.row, lastm.col>>] = CELL_EMPTY]
                       ELSE g.cells
             moves1 == SubSeq(g.moves, 1, Len(g.moves) - 1)
         IN  [game |-> [g EXCEPT !.cells = cells1,
                                 !.moves = moves1,
                                 !.current_player =
                                     IF lastm.player = 1 THEN 2 ELSE 1,
                                 !.finished = 0,
                                 !.winner = 0],
              ret |-> 1]

undo_last_move(g) ==
    IF Len(g.moves) <= 0
    THEN [game |-> g, ret |-> 0]
    ELSE LET lastm == g.moves[Len(g.moves)]
             cells1 == IF within_board(lastm.row, lastm.col)
                       THEN [g.cells EXCEPT ![<<lastm.row, lastm.col>>] = CELL_EMPTY]
                       ELSE g.cells
             moves1 == SubSeq(g.moves, 1, Len(g.moves) - 1)
         IN  [game |-> [g EXCEPT !.cells = cells1,
                                 !.moves = moves1,
                                 !.current_player =
                                     IF Len(moves1) <= 0 THEN 1 ELSE lastm.player,
                                 !.finished = 0,
                                 !.winner = 0],
              ret |-> 1]


(***************************************************************************)
(* AI engine (src/src/ai.c).  rand() is an arbitrary non-negative value:   *)
(* an operator that draws from it yields the set of its possible results.  *)
(***************************************************************************)

\* The k-th cell (k from 0) of the row-major scan: for r, for c.
CellAt(k) == <<k \div BOARD_SIZE, k % BOARD_SIZE>>

ScanOrder == [k \in 1 .. (BOARD_SIZE * BOARD_SIZE) |-> CellAt(k - 1)]

IsEmptyIn(g, p) == g.cells[p] = CELL_EMPTY

\* The Empty cells in the order random_move's loops meet them.
EmptySeq(g) == SelectSeq(ScanOrder, LAMBDA p : g.cells[p] = CELL_EMPTY)

\* directions[4][2] of evaluate_pos and of the threat scan.
EvalDirs == << <<1, 0>>, <<0, 1>>, <<1, 1>>, <<1, -1>> >>

\* self_cnt / opp_cnt of evaluate_pos, cnt of the threat scan: 1 plus the
\* contiguous stones of colour on both sides of (row, col) along direction d.
RunAt(cells, row, col, d, colour) ==
    1 + CountDir(cells, row + EvalDirs[d][1], col + EvalDirs[d][2],
                 EvalDirs[d][1], EvalDirs[d][2], colour)
      + CountDir(cells, row - EvalDirs[d][1], col - EvalDirs[d][2],
                 -EvalDirs[d][1], -EvalDirs[d][2], colour)

SelfTerm(n) == IF n >= WIN_LENGTH THEN 100000 ELSE n * n * 10

\* OppTerm with the weights of SelfTerm.
OppTerm_as_self(n) == IF n >= WIN_LENGTH THEN 100000 ELSE n * n * 10

OppTerm(n) == IF n >= WIN_LENGTH THEN 90000 ELSE n * n * 9

RECURSIVE SumTo(_, _)
SumTo(f, n) == IF n = 0 THEN 0 ELSE f[n] + SumTo(f, n - 1)

evaluate_pos(g, row, col, player) ==
    LET self_type == IF player = 1 THEN CELL_BLACK ELSE CELL_WHITE
        opp_type  == IF player = 1 THEN CELL_WHITE ELSE CELL_BLACK
        term == [d \in 1 .. 4 |->
                    SelfTerm(RunAt(g.cells, row, col, d, self_type))
                  + OppTerm(RunAt(g.cells, row, col, d, opp_type))]
    IN  SumTo(term, 4)

\* random_move that plays the first Empty cell whatever rand() gives.
random_move_first_empty(g, pick) ==
    LET empties == EmptySeq(g)
    IN  IF Len(empties) = 0
        THEN [game |-> g, ret |-> 0]
        ELSE [game |-> place_stone(g, empties[1][1], empties[1][2]).game,
              ret |-> 1]

\* random_move with rand() % empty_count = pick.
random_move(g, pick) ==
    LET empties == EmptySeq(g)
    IN  IF Len(empties) = 0
        THEN [game |-> g, ret |-> 0]
        ELSE [game |-> place_stone(g, empties[pick + 1][1],
                                   empties[pick + 1][2]).game,
              ret |-> 1]

\* RandomMoveOutcomes with pick drawn from 0 .. empty_count: for the largest
\* pick the scan runs out of Empty cells and random_move places nothing.
RandomMoveOutcomes_pick_past_end(g) ==
    IF Len(EmptySeq(g)) = 0
    THEN {random_move(g, 0)}
    ELSE {random_move(g, pick) : pick \in 0 .. (Len(EmptySeq(g)) - 1)}
             \cup {[game |-> g, ret |-> 0]}

\* The results of random_move over the values of rand().
RandomMoveOutcomes(g) ==
    IF Len(EmptySeq(g)) = 0
    THEN {random_move(g, 0)}
    ELSE {random_move(g, pick) : pick \in 0 .. (Len(EmptySeq(g)) - 1)}

\* The scoring loops of ai_move (difficulty 2, and the fallback of
\* difficulty 3): the values of (best_score, best_row, best_col) the scan can
\* hold after cell k-1, over the values of rand() % jitter drawn so far.
BestStart == [best_score |-> -1, best_row |-> -1, best_col |-> -1]

BestStep(S, g, p, jitter) ==
    IF g.cells[p] # CELL_EMPTY
    THEN S
    ELSE LET base == evaluate_pos(g, p[1], p[2], g.current_player)
         IN  { IF base + j > s.best_score
               THEN [best_score |-> base + j, best_row |-> p[1], best_col |-> p[2]]
               ELSE s : s \in S, j \in 0 .. (jitter - 1) }

RECURSIVE BestScan(_, _, _, _)
BestScan(S, g, k, jitter) ==
    IF k = BOARD_SIZE * BOARD_SIZE
    THEN S
    ELSE BestScan(BestStep(S, g, CellAt(k), jitter), g, k + 1, jitter)

\* "if (best_row >= 0 && best_col >= 0) place_stone(...) else random_move(...)".
HeuristicOutcomes(g, jitter) ==
    UNION { IF s.best_row >= 0 /\ s.best_col >= 0
            THEN {place_stone(g, s.best_row, s.best_col).game}
            ELSE {r.game : r \in RandomMoveOutcomes(g)}
            : s \in BestScan({BestStart}, g, 0, jitter) }

Opponent(player) == IF player = 1 THEN 2 ELSE 1

\* The win/block scan without its breaks: the last winning cell is kept.
RECURSIVE WinBlockScan_last_win(_, _, _)
WinBlockScan_last_win(g, k, block) ==
    IF k = BOARD_SIZE * BOARD_SIZE
    THEN [win |-> <<-1, -1>>, block |-> block]
    ELSE LET p    == CellAt(k)
             self == g.current_player
             opp  == Opponent(self)
             rest == WinBlockScan_last_win(g, k + 1, block)
         IN  IF g.cells[p] # CELL_EMPTY
             THEN rest
             ELSE IF place_stone(g, p[1], p[2]).game.winner = self
                  THEN IF rest.win[1] # -1 THEN rest ELSE [win |-> p, block |-> block]
                  ELSE IF place_stone([g EXCEPT !.current_player = opp],
                                      p[1], p[2]).game.winner = opp
                       THEN WinBlockScan_last_win(g, k + 1, p)
                       ELSE rest

\* The win/block scan that keeps the first blocking cell it meets.
RECURSIVE WinBlockScan_first_block(_, _, _)
WinBlockScan_first_block(g, k, block) ==
    IF k = BOARD_SIZE * BOARD_SIZE
    THEN [win |-> <<-1, -1>>, block |-> block]
    ELSE LET p    == CellAt(k)
             self == g.current_player
             opp  == Opponent(self)
         IN  IF g.cells[p] # CELL_EMPTY
             THEN WinBlockScan_first_block(g, k + 1, block)
             ELSE IF place_stone(g, p[1], p[2]).game.winner = self
                  THEN [win |-> p, block |-> block]
                  ELSE IF block[1] = -1
                          /\ place_stone([g EXCEPT !.current_player = opp],
                                         p[1], p[2]).game.winner = opp
                       THEN WinBlockScan_first_block(g, k + 1, p)
                       ELSE WinBlockScan_first_block(g, k + 1, block)

\* The first loop of difficulty 3, from cell k on: win is the first Empty
\* cell whose simulated place_stone leaves temp.winner == self (the scan
\* stops there), block the last Empty cell met before that whose simulated
\* opponent stone leaves temp.winner == opp.  <<-1, -1>> is "none".
RECURSIVE WinBlockScan(_, _, _)
WinBlockScan(g, k, block) ==
    IF k = BOARD_SIZE * BOARD_SIZE
    THEN [win |-> <<-1, -1>>, block |-> block]
    ELSE LET p    == CellAt(k)
             self == g.current_player
             opp  == Opponent(self)
         IN  IF g.cells[p] # CELL_EMPTY
             THEN WinBlockScan(g, k + 1, block)
             ELSE IF place_stone(g, p[1], p[2]).game.winner = self
                  THEN [win |-> p, block |-> block]
                  ELSE IF place_stone([g EXCEPT !.current_player = opp],
                                      p[1], p[2]).game.winner = opp
                       THEN WinBlockScan(g, k + 1, p)
                       ELSE WinBlockScan(g, k + 1, block)

\* max_len of the threat scan for one Empty cell.
MaxOppRun(g, p, opp) ==
    LET cnt == [d \in 1 .. 4 |-> RunAt(g.cells, p[1], p[2], d, ColourOf(opp))]
    IN  Max(Max(Max(Max(1, cnt[1]), cnt[2]), cnt[3]), cnt[4])

\* The threat scan that replaces the candidate on equal length: the last
\* cell of the longest run is kept.
RECURSIVE ThreatScan_last_max(_, _, _)
ThreatScan_last_max(g, k, t) ==
    IF k = BOARD_SIZE * BOARD_SIZE
    THEN t
    ELSE LET p == CellAt(k)
             m == MaxOppRun(g, p, Opponent(g.current_player))
         IN  IF g.cells[p] # CELL_EMPTY
             THEN ThreatScan_last_max(g, k + 1, t)
             ELSE IF m >= t.threat_len
                  THEN ThreatScan_last_max(g, k + 1,
                         [threat_len |-> m, threat_row |-> p[1], threat_col |-> p[2]])
                  ELSE ThreatScan_last_max(g, k + 1, t)

\* The threat scan from cell k on: (threat_len, threat_row, threat_col).
RECURSIVE ThreatScan(_, _, _)
ThreatScan(g, k, t) ==
    IF k = BOARD_SIZE * BOARD_SIZE
    THEN t
    ELSE LET p == CellAt(k)
             m == MaxOppRun(g, p, Opponent(g.current_player))
         IN  IF g.cells[p] # CELL_EMPTY
             THEN ThreatScan(g, k + 1, t)
             ELSE IF m > t.threat_len
                  THEN ThreatScan(g, k + 1,
                         [threat_len |-> m, threat_row |-> p[1], threat_col |-> p[2]])
                  ELSE ThreatScan(g, k + 1, t)

ThreatStart == [threat_len |-> 0, threat_row |-> -1, threat_col |-> -1]

threat_threshold == IF WIN_LENGTH > 2 THEN WIN_LENGTH - 2 ELSE 2

\* Difficulty 3 with the block candidate played before the win candidate.
Tier3BlockFirst(g) ==
    LET wb == WinBlockScan(g, 0, <<-1, -1>>)
    IN  IF wb.block[1] # -1
        THEN {place_stone(g, wb.block[1], wb.block[2]).game}
        ELSE IF wb.win[1] # -1
             THEN {place_stone(g, wb.win[1], wb.win[2]).game}
             ELSE HeuristicOutcomes(g, 3)

\* Difficulty 3 with block_row and block_col exchanged when played.
Tier3BlockTransposed(g) ==
    LET wb == WinBlockScan(g, 0, <<-1, -1>>)
        t  == ThreatScan(g, 0, ThreatStart)
    IN  IF wb.win[1] # -1
        THEN {place_stone(g, wb.win[1], wb.win[2]).game}
        ELSE IF wb.block[1] # -1
             THEN {place_stone(g, wb.block[2], wb.block[1]).game}
             ELSE IF t.threat_len >= threat_threshold
                     /\ t.threat_row >= 0 /\ t.threat_col >= 0
                  THEN {place_stone(g, t.threat_row, t.threat_col).game}
                  ELSE HeuristicOutcomes(g, 3)

\* Difficulty 3 whose block simulation runs on the game itself: the block is
\* played with current_player still set to the opponent.
Tier3SimOnGame(g) ==
    LET wb == WinBlockScan(g, 0, <<-1, -1>>)
        t  == ThreatScan(g, 0, ThreatStart)
    IN  IF wb.win[1] # -1
        THEN {place_stone(g, wb.win[1], wb.win[2]).game}
        ELSE IF wb.block[1] # -1
             THEN {place_stone([g EXCEPT !.current_player = Opponent(g.current_player)],
                               wb.block[1], wb.block[2]).game}
             ELSE IF t.threat_len >= threat_threshold
                     /\ t.threat_row >= 0 /\ t.threat_col >= 0
                  THEN {place_stone(g, t.threat_row, t.threat_col).game}
                  ELSE HeuristicOutcomes(g, 3)

\* Difficulty 3 whose fallback draws its jitter from [0, 100).
Tier3WideJitter(g) ==
    LET wb == WinBlockScan(g, 0, <<-1, -1>>)
        t  == ThreatScan(g, 0, ThreatStart)
    IN  IF wb.win[1] # -1
        THEN {place_stone(g, wb.win[1], wb.win[2]).game}
        ELSE IF wb.block[1] # -1
             THEN {place_stone(g, wb.block[1], wb.block[2]).game}
             ELSE IF t.threat_len >= threat_threshold
                     /\ t.threat_row >= 0 /\ t.threat_col >= 0
                  THEN {place_stone(g, t.threat_row, t.threat_col).game}
                  ELSE HeuristicOutcomes(g, 100)

\* Difficulty 3 whose threat stage is taken or skipped at random: the AI
\* plays either the threat cell or the scored choice.
Tier3ThreatOrScore(g) ==
    LET wb == WinBlockScan(g, 0, <<-1, -1>>)
        t  == ThreatScan(g, 0, ThreatStart)
    IN  IF wb.win[1] # -1
        THEN {place_stone(g, wb.win[1], wb.win[2]).game}
        ELSE IF wb.block[1] # -1
             THEN {place_stone(g, wb.block[1], wb.block[2]).game}
             ELSE IF t.threat_len >= threat_threshold
                     /\ t.threat_row >= 0 /\ t.threat_col >= 0
                  THEN {place_stone(g, t.threat_row, t.threat_col).game}
                           \cup HeuristicOutcomes(g, 3)
                  ELSE HeuristicOutcomes(g, 3)

\* The part of ai_move for difficulty 3 (and above).
Tier3(g) ==
    LET wb == WinBlockScan(g, 0, <<-1, -1>>)
        t  == ThreatScan(g, 0, ThreatStart)
    IN  IF wb.win[1] # -1
        THEN {place_stone(g, wb.win[1], wb.win[2]).game}
        ELSE IF wb.block[1] # -1
             THEN {place_stone(g, wb.block[1], wb.block[2]).game}
             ELSE IF t.threat_len >= threat_threshold
                     /\ t.threat_row >= 0 /\ t.threat_col >= 0
                  THEN {place_stone(g, t.threat_row, t.threat_col).game}
                  ELSE HeuristicOutcomes(g, 3)

\* ai_move that plays on after the end: it clears finished instead of
\* returning.
ai_move_reopens(g, difficulty) ==
    LET g0 == [g EXCEPT !.finished = 0]
    IN  IF difficulty <= 1
        THEN {r.game : r \in RandomMoveOutcomes(g0)}
        ELSE IF difficulty = 2
             THEN HeuristicOutcomes(g0, 5)
             ELSE Tier3(g0)

\* ai_move whose difficulty 2 draws its jitter from [0, 3), as difficulty 3
\* does.
ai_move_tier2_jitter3(g, difficulty) ==
    IF g.finished # 0
    THEN {g}
    ELSE IF difficulty <= 1
         THEN {r.game : r \in RandomMoveOutcomes(g)}
         ELSE IF difficulty = 2
              THEN HeuristicOutcomes(g, 3)
              ELSE Tier3(g)

\* ai_move(&game, difficulty): the GameStates it can leave, over rand().
ai_move(g, difficulty) ==
    IF g.finished # 0
    THEN {g}
    ELSE IF difficulty <= 1
         THEN {r.game : r \in RandomMoveOutcomes(g)}
         ELSE IF difficulty = 2
              THEN HeuristicOutcomes(g, 5)
              ELSE Tier3(g)

Difficulties == 1 .. 3

(***************************************************************************)
(* Openings: move lists played from a new game, Black first, by successive *)
(* place_stone calls.                                                      *)
(***************************************************************************)
RECURSIVE Replay(_, _)
Replay(g, seq) ==
    IF seq = << >>
    THEN g
    ELSE Replay(place_stone(g, Head(seq)[1], Head(seq)[2]).game, Tail(seq))

\*  W W W . B      Black to move: Black completes row 2 at (2,0) or (2,4),
\*  B . . . W      White threatens (0,3).  With White's last move (0,2)
\*  . B B B .      taken back, White must block and cannot win.
\*  W . W B .
\*  B W B W .
OpenThreat ==
    << <<0,4>>, <<0,0>>, <<1,0>>, <<0,1>>, <<2,1>>, <<1,4>>, <<2,2>>, <<3,0>>,
       <<2,3>>, <<3,2>>, <<3,3>>, <<4,1>>, <<4,0>>, <<4,3>>, <<4,2>>, <<0,2>> >>

\*  B B W W W      White to move: White completes the '/' diagonal at (2,2);
\*  B . B W .      Black completes the '\' diagonal at (3,4) and a column
\*  . . . B W      of five at (2,0).
\*  B W . W .
\*  B B W . B
OpenDiag ==
    << <<0,0>>, <<0,2>>, <<0,1>>, <<0,3>>, <<1,0>>, <<0,4>>, <<1,2>>, <<1,3>>,
       <<2,3>>, <<2,4>>, <<3,0>>, <<3,1>>, <<4,0>>, <<3,3>>, <<4,1>>, <<4,2>>,
       <<4,4>> >>

\*  B B W W W      Black to move, (3,3) left: Black's stone there completes
\*  W B B B W      the '\' diagonal (0,0)..(4,4) and wins on the last cell.
\*  B B B W W      With White's last move (0,4) taken back, White (3,3) and
\*  W W B . B      Black (0,4) fill the board with no run: a draw.
\*  W W W B B
OpenFull ==
    << <<0,0>>, <<0,2>>, <<0,1>>, <<0,3>>, <<1,1>>, <<1,0>>, <<1,2>>, <<1,4>>,
       <<1,3>>, <<2,3>>, <<2,0>>, <<2,4>>, <<2,1>>, <<3,0>>, <<2,2>>, <<3,1>>,
       <<3,2>>, <<4,0>>, <<3,4>>, <<4,1>>, <<4,3>>, <<4,2>>, <<4,4>>, <<0,4>> >>

\*  W B W B W      Black to move, five cells left: Black completes row 1 at
\*  . . B B B      (1,1), White threatens row 4 at (4,2).
\*  B W . W B
\*  W B B . W
\*  W W . W B
OpenLate ==
    << <<0,1>>, <<0,2>>, <<0,3>>, <<0,4>>, <<1,2>>, <<2,1>>, <<1,3>>, <<2,3>>,
       <<1,4>>, <<3,0>>, <<2,0>>, <<3,4>>, <<2,4>>, <<4,0>>, <<3,1>>, <<4,1>>,
       <<3,2>>, <<4,3>>, <<4,4>>, <<0,0>> >>

Openings == { << >>, OpenThreat, OpenDiag, OpenLate, OpenFull }

RegionOf(o) == [lo |-> Max(0, Len(o) - MaxBack), hi |-> Len(o) + MaxAhead]

(***************************************************************************)
(* Core specification: the rules engine called directly.                   *)
(***************************************************************************)
Op(op, ret, arg) == [op |-> op, ret |-> ret, arg |-> arg]

\* No playback is running.
NoPlayback == [on |-> 0, game |-> init_game, temp |-> init_game, i |-> 0, stop |-> 0]

\* No resume snapshot is on disk and none has been loaded.
NoResume == [file |-> << >>, on |-> 0, game |-> init_game, mode |-> 0, elapsed |-> 0]

\* The win counters at program start (static int ... = 0).
NoScore == [pvp_black |-> 0, pvp_white |-> 0, ai_black |-> 0, ai_white |-> 0]

Init ==
    /\ \E o \in Openings :
          /\ game = Replay(init_game, o)
          /\ region = RegionOf(o)
    /\ last = Op("init", 1, 0)
    /\ mode = 0
    /\ game_over = 0
    /\ score = NoScore
    /\ file = << >>
    /\ pb = NoPlayback
    /\ resume = NoResume

\* place_stone(&game, row, col), for any arguments.
Place(row, col) ==
    LET res == place_stone(game, row, col)
    IN  /\ res.ret = 1 => Len(game.moves) < region.hi
        /\ game' = res.game
        /\ last' = Op("place", res.ret, 0)
        /\ UNCHANGED <<region, mode, game_over, score, file, pb, resume>>

\* undo_last_move(&game).
Undo ==
    LET res == undo_last_move(game)
    IN  /\ res.ret = 1 => Len(game.moves) > region.lo
        /\ game' = res.game
        /\ last' = Op("undo", res.ret, 0)
        /\ UNCHANGED <<region, mode, game_over, score, file, pb, resume>>

\* ai_move(&game, difficulty); it returns nothing, and ret records how many
\* moves the call added to the history.  Beyond the region only the calls
\* that cannot place (game finished, no Empty cell) are followed.
AiMove(difficulty) ==
    /\ \/ Len(game.moves) < region.hi
       \/ game.finished # 0
       \/ \A p \in Pos : game.cells[p] # CELL_EMPTY
    /\ \E g2 \in ai_move(game, difficulty) :
          /\ g2 # game => Len(game.moves) < region.hi
          /\ game' = g2
          /\ last' = Op("ai", Len(g2.moves) - Len(game.moves), difficulty)
    /\ UNCHANGED <<region, mode, game_over, score, file, pb, resume>>

Next ==
    \/ \E row \in Coords, col \in Coords : Place(row, col)
    \/ Undo
    \/ \E difficulty \in Difficulties : AiMove(difficulty)

Spec == Init /\ [][Next]_vars

\* The rules engine alone: a new game and the positions prepared from it,
\* changed by place_stone and undo_last_move only.
RulesNext ==
    \/ \E row \in Coords, col \in Coords : Place(row, col)
    \/ Undo

RulesSpec == Init /\ [][RulesNext]_vars

(***************************************************************************)
(* The AI engine alone: ai_move called for either side at any difficulty,  *)
(* and moves taken back, from the positions of AiOpenings.                 *)
(***************************************************************************)
\*  W W B . .      Black to move: no cell wins for either side and no Empty
\*  B W B . .      cell adjoins a White stone; Black's scores differ from
\*  W W B B .      cell to cell, (1,3) being the best.  With White's last
\*  B B W B B      move (1,1) taken back, White faces Black runs of two
\*  W B W W W      through (1,1), (1,3) and (2,4) and shorter ones before.
OpenQuiet ==
    << <<0,2>>, <<0,0>>, <<1,0>>, <<0,1>>, <<1,2>>, <<2,0>>, <<2,2>>, <<2,1>>,
       <<2,3>>, <<3,2>>, <<3,0>>, <<4,0>>, <<3,1>>, <<4,2>>, <<3,3>>, <<4,3>>,
       <<3,4>>, <<4,4>>, <<4,1>>, <<1,1>> >>

\*  W W . B B      Black to move, no cell wins for either side: Black's best
\*  B W B W .      score is at (4,2) and the next one, 3 below, at (0,2),
\*  . B W W B      earlier in the scan.
\*  W B W B W
\*  . B . W B
OpenTie ==
    << <<0,3>>, <<0,0>>, <<0,4>>, <<0,1>>, <<1,0>>, <<1,1>>, <<1,2>>, <<1,3>>,
       <<2,1>>, <<2,3>>, <<2,4>>, <<3,0>>, <<3,1>>, <<3,2>>, <<3,3>>, <<3,4>>,
       <<4,1>>, <<4,3>>, <<4,4>>, <<2,2>> >>

AiOpenings == Openings \cup {OpenQuiet, OpenTie}

(***************************************************************************)
(* Games played out by place_stone alone.  A game from the new board has   *)
(* too many orders of play to enumerate, so play starts from the late      *)
(* positions, and from the same ones up to MaxBack moves earlier, and runs *)
(* without any limit on the number of moves.  A caller that goes on        *)
(* placing eventually names a cell that place_stone accepts while there    *)
(* is one: weak fairness of the accepted call.                             *)
(***************************************************************************)
PlaceOpenings ==
    {SubSeq(o, 1, Len(o) - k) : o \in {OpenLate, OpenQuiet},
                                k \in 0 .. MaxBack}

PlaceInit ==
    /\ \E o \in PlaceOpenings :
          /\ game = Replay(init_game, o)
          /\ region = [lo |-> Len(o), hi |-> BOARD_SIZE * BOARD_SIZE]
    /\ last = Op("init", 1, 0)
    /\ mode = 0
    /\ game_over = 0
    /\ score = NoScore
    /\ file = << >>
    /\ pb = NoPlayback
    /\ resume = NoResume

PlaceNext == \E row \in Coords, col \in Coords : Place(row, col)

PlaceAccepted == PlaceNext /\ last'.ret = 1

PlaceSpec == PlaceInit /\ [][PlaceNext]_vars /\ WF_vars(PlaceAccepted)

AiInit ==
    /\ \E o \in AiOpenings :
          /\ game = Replay(init_game, o)
          /\ region = RegionOf(o)
    /\ last = Op("init", 1, 0)
    /\ mode = 0
    /\ game_over = 0
    /\ score = NoScore
    /\ file = << >>
    /\ pb = NoPlayback
    /\ resume = NoResume

AiNext ==
    \/ Undo
    \/ \E difficulty \in Difficulties : AiMove(difficulty)

AiSpec == AiInit /\ [][AiNext]_vars

\* score = evaluate_pos(game, r, c, side), as the scoring loops of ai_move
\* call it on an Empty cell; ret records the score, arg the cell and side.
Evaluate(row, col, side) ==
    /\ game.cells[<<row, col>>] = CELL_EMPTY
    /\ last' = Op("score", evaluate_pos(game, row, col, side), <<row, col, side>>)
    /\ UNCHANGED <<game, region, mode, game_over, score, file, pb, resume>>

\* The scoring function applied to the boards the heuristic tier and undo
\* reach from the prepared openings.
ScoreNext ==
    \/ Undo
    \/ AiMove(2)
    \/ \E p \in Pos, side \in Players : Evaluate(p[1], p[2], side)

ScoreSpec == AiInit /\ [][ScoreNext]_vars

(***************************************************************************)
(* Records (save_record, parse_moves, load_record).  Text is a sequence of *)
(* one-character strings; a C pointer into a text is a 1-based index, and  *)
(* the terminating NUL is what At yields past the end.                     *)
(***************************************************************************)
Digits == << "0", "1", "2", "3", "4", "5", "6", "7", "8", "9" >>

NUL == ""

\* printf("%d", n) for n >= 0.
RECURSIVE FormatNat(_)
FormatNat(n) ==
    IF n < 10
    THEN << Digits[n + 1] >>
    ELSE FormatNat(n \div 10) \o << Digits[(n % 10) + 1] >>

\* printf("%d", n).
FormatInt(n) == IF n < 0 THEN << "-" >> \o FormatNat(-n) ELSE FormatNat(n)

\* What strftime("%Y-%m-%d %H:%M:%S") or strcpy(timestr, "unknown") leaves
\* in timestr.
TimeStamp ==
    << "2", "0", "2", "5", "-", "0", "1", "-", "0", "2", " ",
       "0", "3", ":", "0", "4", ":", "0", "5" >>

TimeUnknown == << "u", "n", "k", "n", "o", "w", "n" >>

TimeStrings == {TimeStamp, TimeUnknown}

\* {"time":"
FmtTime == << "{", "\"", "t", "i", "m", "e", "\"", ":", "\"" >>

\* ","winner":
FmtWinner == << "\"", ",", "\"", "w", "i", "n", "n", "e", "r", "\"", ":" >>

\* ,"undo":
FmtUndo == << ",", "\"", "u", "n", "d", "o", "\"", ":" >>

\* ,"moves":[
FmtMoves == << ",", "\"", "m", "o", "v", "e", "s", "\"", ":", "[" >>

\* {"p":
FmtP == << "{", "\"", "p", "\"", ":" >>

\* ,"r":
FmtR == << ",", "\"", "r", "\"", ":" >>

\* ,"c":
FmtC == << ",", "\"", "c", "\"", ":" >>

\* fprintf(fp, "{\"p\":%d,\"r\":%d,\"c\":%d}", m->player, m->row, m->col).
FormatMove(m) ==
    FmtP \o FormatInt(m.player) \o FmtR \o FormatInt(m.row)
         \o FmtC \o FormatInt(m.col) \o << "}" >>

\* The for loop of save_record from move i on: the moves, comma separated.
RECURSIVE FormatMoves(_, _)
FormatMoves(moves, i) ==
    IF i > Len(moves)
    THEN << >>
    ELSE FormatMove(moves[i])
           \o (IF i # Len(moves) THEN << "," >> ELSE << >>)
           \o FormatMoves(moves, i + 1)

\* The line save_record appends to the record file.
save_record(g, timestr) ==
    FmtTime \o timestr \o FmtWinner \o FormatInt(g.winner)
            \o FmtUndo \o FormatInt(g.undo_count)
            \o FmtMoves \o FormatMoves(g.moves, 1) \o << "]", "}", "\n" >>

\* *p.
At(text, p) == IF p >= 1 /\ p <= Len(text) THEN text[p] ELSE NUL

\* strncmp(text + p, lit, strlen(lit)) == 0.
HasPrefixAt(text, p, lit) ==
    /\ p >= 1
    /\ p + Len(lit) - 1 <= Len(text)
    /\ \A i \in 1 .. Len(lit) : text[p + i - 1] = lit[i]

\* strstr(text + p, lit): the first occurrence, 0 for NULL.
RECURSIVE strstr(_, _, _)
strstr(text, p, lit) ==
    IF p > Len(text)
    THEN 0
    ELSE IF HasPrefixAt(text, p, lit)
         THEN p
         ELSE strstr(text, p + 1, lit)

\* strchr(text + p, ch): the first occurrence, 0 for NULL.
RECURSIVE strchr(_, _, _)
strchr(text, p, ch) ==
    IF p > Len(text)
    THEN 0
    ELSE IF text[p] = ch
         THEN p
         ELSE strchr(text, p + 1, ch)

IsSpace(ch) == ch \in {" ", "\t", "\n"}

IsDigit(ch) == \E d \in 1 .. 10 : Digits[d] = ch

DigitValue(ch) == (CHOOSE d \in 1 .. 10 : Digits[d] = ch) - 1

RECURSIVE SkipSpace(_, _)
SkipSpace(text, p) ==
    IF IsSpace(At(text, p)) THEN SkipSpace(text, p + 1) ELSE p

RECURSIVE ScanDigits(_, _, _)
ScanDigits(text, p, acc) ==
    IF IsDigit(At(text, p))
    THEN ScanDigits(text, p + 1, acc * 10 + DigitValue(At(text, p)))
    ELSE [val |-> acc, next |-> p]

\* One %d conversion of sscanf at p: white space, an optional sign, digits.
\* ok = 0 when no digit follows (nothing is assigned).
ScanInt(text, p) ==
    LET q  == SkipSpace(text, p)
        q1 == IF At(text, q) \in {"-", "+"} THEN q + 1 ELSE q
    IN  IF ~IsDigit(At(text, q1))
        THEN [ok |-> 0, val |-> 0, next |-> p]
        ELSE LET d == ScanDigits(text, q1, 0)
             IN  [ok   |-> 1,
                  val  |-> IF At(text, q) = "-" THEN -d.val ELSE d.val,
                  next |-> d.next]

\* sscanf(p, "{\"p\":%d,\"r\":%d,\"c\":%d}", &player, &row, &col): n is the
\* number of conversions assigned; player, row and col start as 0.
ScanMove(text, p) ==
    LET none == [n |-> 0, player |-> 0, row |-> 0, col |-> 0]
    IN  IF ~HasPrefixAt(text, p, FmtP) THEN none
        ELSE LET a == ScanInt(text, p + Len(FmtP))
             IN  IF a.ok = 0 THEN none
                 ELSE IF ~HasPrefixAt(text, a.next, FmtR)
                      THEN [none EXCEPT !.n = 1, !.player = a.val]
                      ELSE LET b == ScanInt(text, a.next + Len(FmtR))
                           IN  IF b.ok = 0
                               THEN [none EXCEPT !.n = 1, !.player = a.val]
                               ELSE IF ~HasPrefixAt(text, b.next, FmtC)
                                    THEN [n |-> 2, player |-> a.val,
                                          row |-> b.val, col |-> 0]
                                    ELSE LET c == ScanInt(text, b.next + Len(FmtC))
                                         IN  IF c.ok = 0
                                             THEN [n |-> 2, player |-> a.val,
                                                   row |-> b.val, col |-> 0]
                                             ELSE [n |-> 3, player |-> a.val,
                                                   row |-> b.val, col |-> c.val]

\* "moves":[
KeyMoves == << "\"", "m", "o", "v", "e", "s", "\"", ":", "[" >>

\* "winner":
KeyWinner == << "\"", "w", "i", "n", "n", "e", "r", "\"", ":" >>

\* "undo":
KeyUndo == << "\"", "u", "n", "d", "o", "\"", ":" >>

\* The body of parse_moves' while loop for one scanned move: the stone is
\* written straight into the board, the move appended to the history.
StoreMove(g, player, row, col) ==
    IF within_board(row, col)
    THEN LET g1 == [g EXCEPT !.cells[<<row, col>>] =
                        IF player = 1 THEN CELL_BLACK ELSE CELL_WHITE]
         IN  IF Len(g1.moves) < BOARD_SIZE * BOARD_SIZE
             THEN [g1 EXCEPT !.moves = Append(g1.moves,
                        [row |-> row, col |-> col, player |-> player])]
             ELSE g1
    ELSE g

\* ParseLoop with the scanned row and column exchanged.
RECURSIVE ParseLoop_rc_swapped(_, _, _)
ParseLoop_rc_swapped(line, p, g) ==
    IF At(line, p) = NUL \/ At(line, p) = "]"
    THEN g
    ELSE LET m == ScanMove(line, p)
         IN  IF m.n # 3
             THEN g
             ELSE LET g1 == StoreMove(g, m.player, m.col, m.row)
                      q  == strchr(line, p, "}")
                  IN  IF q = 0
                      THEN g1
                      ELSE ParseLoop_rc_swapped(line,
                              IF At(line, q + 1) = "," THEN q + 2 ELSE q + 1, g1)

\* "while (*p && *p != ']')" of parse_moves, from p on.
RECURSIVE ParseLoop(_, _, _)
ParseLoop(line, p, g) ==
    IF At(line, p) = NUL \/ At(line, p) = "]"
    THEN g
    ELSE LET m == ScanMove(line, p)
         IN  IF m.n # 3
             THEN g
             ELSE LET g1 == StoreMove(g, m.player, m.row, m.col)
                      q  == strchr(line, p, "}")
                  IN  IF q = 0
                      THEN g1
                      ELSE ParseLoop(line,
                              IF At(line, q + 1) = "," THEN q + 2 ELSE q + 1, g1)

\* The value read by "sscanf(k + skip, "%d", &v)" after k = strstr(line,
\* key), v keeping its initial 0 when the key or the number is missing.
FieldValue(line, key, skip) ==
    LET k == strstr(line, 1, key)
    IN  IF k = 0
        THEN 0
        ELSE LET v == ScanInt(line, k + skip)
             IN  IF v.ok = 1 THEN v.val ELSE 0

\* parse_moves(line, game): game is left as it was when the line has no
\* moves array.
parse_moves(line, g) ==
    LET p0 == strstr(line, 1, KeyMoves)
    IN  IF p0 = 0
        THEN g
        ELSE LET p1 == strchr(line, p0, "[")
             IN  IF p1 = 0
                 THEN g
                 ELSE LET g1 == ParseLoop(line, p1 + 1, init_game)
                      IN  [g1 EXCEPT
                             !.undo_count = FieldValue(line, KeyUndo, 7),
                             !.finished = 1,
                             !.winner = FieldValue(line, KeyWinner, 9),
                             !.current_player =
                                 IF Len(g1.moves) % 2 = 0 THEN 1 ELSE 2]

\* load_record(index, &game) on the lines of the record file.
load_record(lines, index, g) ==
    IF index >= 0 /\ index < Len(lines)
    THEN [game |-> parse_moves(lines[index + 1], g), ret |-> 1]
    ELSE [game |-> g, ret |-> 0]

\* PlaybackMove that leaves the mover to place_stone's toggling.
PlaybackMove_toggle(temp, m) ==
    place_stone([temp EXCEPT !.finished = 0], m.row, m.col).game

\* One iteration of playback_one_game's for loop that is not stopped: the
\* i-th recorded move (from 0) is played by its recorded mover.
PlaybackMove(temp, m) ==
    place_stone([temp EXCEPT !.current_player = m.player, !.finished = 0],
                m.row, m.col).game

\* playback_one_game's for loop from iteration i on; a click or a quit
\* event is met at the start of iteration stopAt (none when stopAt is not
\* an iteration of the loop).
RECURSIVE PlaybackLoop(_, _, _, _)
PlaybackLoop(g, temp, i, stopAt) ==
    IF i >= Len(g.moves)
    THEN [temp |-> temp, i |-> i, stop |-> 0]
    ELSE IF i = stopAt
         THEN [temp |-> temp, i |-> i, stop |-> 1]
         ELSE PlaybackLoop(g, PlaybackMove(temp, g.moves[i + 1]), i + 1, stopAt)

\* playback_one_game(ren, game): the local board it has shown last, the
\* number of moves played back and whether it was stopped.
playback_one_game(g, stopAt) == PlaybackLoop(g, init_game, 0, stopAt)

\* The iterations at which a playback may be interrupted; -1 for never.
StopPoints == (-1) .. MaxStop

(***************************************************************************)
(* Record specification: a finished game reached through the rules engine  *)
(* and the AI is saved, loaded back from the file and played back.         *)
(***************************************************************************)

\* save_record(&game) on a finished game; the clock is arbitrary.
SaveRecord(timestr) ==
    /\ game.finished = 1
    /\ file = << >>
    /\ file' = Append(file, save_record(game, timestr))
    /\ last' = Op("save", 1, 0)
    /\ UNCHANGED <<game, region, mode, game_over, score, pb, resume>>

\* run_playback's play button on record index: load_record into a local
\* GameState and, when the record is found, playback_one_game, which shows
\* its local board temp after every move.  The caller's GameState is not
\* initialised; parse_moves overwrites it whenever the line has a moves
\* array, which every saved line has.  A playback depends on the file
\* alone, not on an earlier playback: each behaviour holds one.
Playback(index, stopAt) ==
    /\ file # << >>
    /\ pb.on = 0
    /\ \E res \in {load_record(file, index, NoPlayback.game)} :
         /\ \E run \in {playback_one_game(res.game, stopAt)} :
              pb' = IF res.ret # 0
                    THEN [on |-> 1, game |-> res.game, temp |-> run.temp,
                          i |-> run.i, stop |-> run.stop]
                    ELSE pb
         /\ last' = Op("playback", res.ret, index)
    /\ UNCHANGED <<game, region, mode, game_over, score, file, resume>>

RecordNext ==
    \/ file = << >> /\ Next
    \/ \E timestr \in TimeStrings : SaveRecord(timestr)
    \/ \E index \in 0 .. Len(file), stopAt \in StopPoints : Playback(index, stopAt)

RecordSpec == Init /\ [][RecordNext]_vars

(***************************************************************************)
(* Replay specification: the record file holds one line that the program   *)
(* did not write from a game it played (the movers need not alternate);    *)
(* the line is loaded and played back.                                     *)
(***************************************************************************)

\* The longest history of such a line.
MaxRecord == 3

\* The cells its moves are on: the first WIN_LENGTH cells of row 0.
RecordCells == {<<0, c>> : c \in 0 .. (WIN_LENGTH - 1)}

\* The histories of such lines: moves on distinct cells by either mover in
\* any order.
RecordMoves ==
    {[i \in DOMAIN s |-> [row |-> s[i][1][1], col |-> s[i][1][2], player |-> s[i][2]]] :
        s \in {t \in UNION {[1 .. n -> RecordCells \X Players] : n \in 0 .. MaxRecord} :
                   \A i, j \in DOMAIN t : i # j => t[i][1] # t[j][1]}}

ReplayInit ==
    /\ game = init_game
    /\ region = [lo |-> 0, hi |-> 0]
    /\ last = Op("init", 1, 0)
    /\ mode = 0
    /\ game_over = 0
    /\ score = NoScore
    /\ \E ms \in RecordMoves :
          file = << save_record([init_game EXCEPT !.moves = ms], TimeUnknown) >>
    /\ pb = NoPlayback
    /\ resume = NoResume

ReplayNext ==
    \E index \in 0 .. Len(file), stopAt \in StopPoints : Playback(index, stopAt)

ReplaySpec == ReplayInit /\ [][ReplayNext]_vars

(***************************************************************************)
(* Session (run_game_internal): the event handlers of one game window.     *)
(* Rendering, sounds, the timer and the resume snapshot are not part of    *)
(* the model.                                                              *)
(***************************************************************************)
AiMode(m) == m >= 2 /\ m <= 4

\* HumanClick that never lets the AI answer: after a human stone that ends
\* nothing the handler only switches the player.
HumanClick_no_reply(g, m, row, col) ==
    IF AiMode(m) /\ g.current_player # 1
    THEN {[game |-> g, game_over |-> 0, ret |-> 0]}
    ELSE IF g.cells[<<row, col>>] # CELL_EMPTY
    THEN {[game |-> g, game_over |-> 0, ret |-> 0]}
    ELSE
      LET g1 == [g EXCEPT !.cells[<<row, col>>] = g.current_player]
          g2 == IF Len(g1.moves) < BOARD_SIZE * BOARD_SIZE
                THEN [g1 EXCEPT !.moves = Append(g1.moves,
                          [row |-> row, col |-> col, player |-> g.current_player])]
                ELSE g1
          cw == check_win(g2, row, col)
      IN  IF cw.ret # 0
          THEN {[game |-> [cw.game EXCEPT !.winner = g.current_player],
                 game_over |-> 1, ret |-> 1]}
          ELSE IF board_full(cw.game)
          THEN {[game |-> [cw.game EXCEPT !.winner = 0],
                 game_over |-> 1, ret |-> 1]}
          ELSE {[game |-> switch_player(cw.game), game_over |-> 0, ret |-> 1]}

\* The left-click handler once pixel_to_cell has mapped the click to the
\* cell (row, col): the GameStates and game_over flags it can leave, over
\* rand().  The stone is written by the handler itself, not by place_stone.
\* (game.moves_count is the length of moves; it runs ahead of the array
\* only by a click on an Empty cell of a board whose history is full.)
HumanClick(g, m, row, col) ==
    IF AiMode(m) /\ g.current_player # 1
    THEN {[game |-> g, game_over |-> 0, ret |-> 0]}
    ELSE IF g.cells[<<row, col>>] # CELL_EMPTY
    THEN {[game |-> g, game_over |-> 0, ret |-> 0]}
    ELSE
      LET g1 == [g EXCEPT !.cells[<<row, col>>] = g.current_player]
          g2 == IF Len(g1.moves) < BOARD_SIZE * BOARD_SIZE
                THEN [g1 EXCEPT !.moves = Append(g1.moves,
                          [row |-> row, col |-> col, player |-> g.current_player])]
                ELSE g1
          cw == check_win(g2, row, col)
      IN  IF cw.ret # 0
          THEN {[game |-> [cw.game EXCEPT !.winner = g.current_player],
                 game_over |-> 1, ret |-> 1]}
          ELSE IF board_full(cw.game)
          THEN {[game |-> [cw.game EXCEPT !.winner = 0],
                 game_over |-> 1, ret |-> 1]}
          ELSE
            LET g3 == switch_player(cw.game)
            IN  IF AiMode(m) /\ g3.current_player = 2
                THEN {[game |-> g4,
                       game_over |-> IF g4.finished # 0 THEN 1 ELSE 0,
                       ret |-> 1] : g4 \in ai_move(g3, m - 1)}
                ELSE {[game |-> g3, game_over |-> 0, ret |-> 1]}

\* UndoKey that never calls undo_last_move a second time.
UndoKey_single(g, m) ==
    LET u1 == undo_last_move(g)
    IN  [game |-> IF u1.ret # 0
                  THEN [u1.game EXCEPT !.undo_count = u1.game.undo_count + 1]
                  ELSE u1.game,
         ret  |-> IF u1.ret # 0 THEN 1 ELSE 0]

\* The undo key (U or Ctrl+Z): one undo, and in the modes against the AI a
\* second one when it is then not Black's turn; one key press counts once.
UndoKey(g, m) ==
    LET u1  == undo_last_move(g)
        u2  == IF AiMode(m) /\ u1.ret # 0 /\ u1.game.current_player # 1
               THEN undo_last_move(u1.game)
               ELSE u1
        did == IF u1.ret # 0 \/ u2.ret # 0 THEN 1 ELSE 0
    IN  [game |-> IF did # 0
                  THEN [u2.game EXCEPT !.undo_count = u2.game.undo_count + 1]
                  ELSE u2.game,
         ret  |-> did]

\* "if (game.winner == 1) (*score_black_ptr)++; else if (game.winner == 2)
\* (*score_white_ptr)++", the pointers chosen by the mode.
AddScore(sc, m, winner) ==
    IF winner = 1
    THEN IF m = 1 THEN [sc EXCEPT !.pvp_black = sc.pvp_black + 1]
                  ELSE [sc EXCEPT !.ai_black = sc.ai_black + 1]
    ELSE IF winner = 2
    THEN IF m = 1 THEN [sc EXCEPT !.pvp_white = sc.pvp_white + 1]
                  ELSE [sc EXCEPT !.ai_white = sc.ai_white + 1]
    ELSE sc

\* Positions a session of mode m can be in between two events: any
\* position when both sides click; against the random AI (mode 2) any
\* position with Black to move, of which the late ones are taken; against
\* the scoring AIs the new game.
SessionOpenings(m) ==
    IF m = 1
    THEN Openings
    ELSE IF m = 2
         THEN {<< >>, OpenLate, OpenFull}
         ELSE {<< >>}

SessionInit ==
    /\ \E m \in 1 .. 4 :
          /\ mode = m
          /\ \E o \in SessionOpenings(m) :
                /\ game = Replay(init_game, o)
                /\ region = RegionOf(o)
    /\ last = Op("init", 1, 0)
    /\ game_over = 0
    /\ score = NoScore
    /\ file = << >>
    /\ pb = NoPlayback
    /\ resume = NoResume

\* A left click on the board while the game is not over.  Beyond the region
\* only the clicks that place no stone are followed.
Click(row, col) ==
    /\ AiMode(mode) \/ mode = 1
    /\ game_over = 0
    /\ \/ Len(game.moves) < region.hi
       \/ AiMode(mode) /\ game.current_player # 1
       \/ game.cells[<<row, col>>] # CELL_EMPTY
    /\ \E res \in HumanClick(game, mode, row, col) :
          /\ res.ret = 1 => Len(game.moves) < region.hi
          /\ game' = res.game
          /\ game_over' = res.game_over
          /\ last' = Op("click", res.ret, 0)
    /\ UNCHANGED <<region, mode, score, file, pb, resume>>

\* An undo key press while the game is not over.
PressUndo ==
    /\ AiMode(mode) \/ mode = 1
    /\ game_over = 0
    /\ \E res \in {UndoKey(game, mode)} :
          /\ res.ret = 1 => /\ Len(game.moves) > region.lo
                            /\ game.undo_count < MaxUndoCount
          /\ game' = res.game
          /\ last' = Op("undokey", res.ret, 0)
    /\ UNCHANGED <<region, mode, game_over, score, file, pb, resume>>

\* The end of a round (game_over set): the score is counted, the record
\* saved, and the end menu answered by "again" (a new round, which the
\* exploration does not play on) or by "quit" (the session ends).
EndOfRound(timestr, again) ==
    /\ AiMode(mode) \/ mode = 1
    /\ game_over = 1
    /\ score' = AddScore(score, mode, game.winner)
    /\ file' = Append(file, save_record(game, timestr))
    /\ IF again = 1
       THEN /\ game' = init_game
            /\ game_over' = 0
            /\ mode' = mode
            /\ region' = [lo |-> 0, hi |-> 0]
       ELSE /\ game' = game
            /\ game_over' = 0
            /\ mode' = 0
            /\ region' = region
    /\ last' = Op("endround", 1, again)
    /\ UNCHANGED <<pb, resume>>

SessionNext ==
    \/ \E row \in Rows, col \in Rows : Click(row, col)
    \/ PressUndo
    \/ \E timestr \in TimeStrings, again \in {0, 1} : EndOfRound(timestr, again)

SessionSpec == SessionInit /\ [][SessionNext]_vars

(***************************************************************************)
(* Resume snapshot (save_resume_game, load_resume_game): the text of       *)
(* liu/data/resume.json, character by character as for the record file.    *)
(***************************************************************************)

\* {"mode":
FmtMode == << "{", "\"", "m", "o", "d", "e", "\"", ":" >>

\* ,"elapsed":
FmtElapsed == << ",", "\"", "e", "l", "a", "p", "s", "e", "d", "\"", ":" >>

\* ,"current":
FmtCurrent == << ",", "\"", "c", "u", "r", "r", "e", "n", "t", "\"", ":" >>

\* What save_resume_game writes for the given current-player text.
ResumeText(g, m, elapsed_seconds, current) ==
    FmtMode \o FormatInt(m)
            \o FmtElapsed \o FormatInt(IF elapsed_seconds < 0 THEN 0 ELSE elapsed_seconds)
            \o current
            \o FmtUndo \o FormatInt(g.undo_count)
            \o FmtMoves \o FormatMoves(g.moves, 1) \o << "]", "}", "\n" >>

\* save_resume_game that writes 0 for the undo counter.
save_resume_game_no_undo(g, m, elapsed_seconds) ==
    ResumeText([g EXCEPT !.undo_count = 0], m, elapsed_seconds,
               FmtCurrent \o FormatInt(g.current_player))

\* save_resume_game(&game, mode, elapsed): the text of the file it writes.
save_resume_game(g, m, elapsed_seconds) ==
    ResumeText(g, m, elapsed_seconds, FmtCurrent \o FormatInt(g.current_player))

\* "mode":
KeyMode == << "\"", "m", "o", "d", "e", "\"", ":" >>

\* "elapsed":
KeyElapsed == << "\"", "e", "l", "a", "p", "s", "e", "d", "\"", ":" >>

\* "current":
KeyCurrent == << "\"", "c", "u", "r", "r", "e", "n", "t", "\"", ":" >>

\* The value left in a local of load_resume_game by "if (k) sscanf(k + skip,
\* "%d", &local)" after k = strstr(buf, key): the local keeps its initial
\* value when the key or the number is missing.
LocalValue(buf, key, skip, initial) ==
    LET k == strstr(buf, 1, key)
    IN  IF k = 0
        THEN initial
        ELSE LET v == ScanInt(buf, k + skip)
             IN  IF v.ok = 1 THEN v.val ELSE initial

\* parse_resume_moves(buf, game): game is left as it was when the text has
\* no moves array.
parse_resume_moves(buf, g) ==
    LET p0 == strstr(buf, 1, KeyMoves)
    IN  IF p0 = 0
        THEN g
        ELSE LET p1 == strchr(buf, p0, "[")
             IN  IF p1 = 0 THEN g ELSE ParseLoop(buf, p1 + 1, init_game)

\* load_resume_game(&game, &mode, &elapsed) on the text buf of the file
\* (empty when there is no file or it has no bytes); g, m and e are what
\* the caller's variables hold before the call.
load_resume_game(buf, g, m, e) ==
    IF Len(buf) = 0
    THEN [game |-> g, mode |-> m, elapsed |-> e, ret |-> 0]
    ELSE LET local_current == LocalValue(buf, KeyCurrent, 10, 1)
             g1 == parse_resume_moves(buf, g)
         IN  [game |-> [g1 EXCEPT
                          !.undo_count = LocalValue(buf, KeyUndo, 7, 0),
                          !.finished = 0,
                          !.winner = 0,
                          !.current_player =
                              IF local_current = 1 \/ local_current = 2
                              THEN local_current
                              ELSE IF Len(g1.moves) % 2 = 0 THEN 1 ELSE 2],
              mode |-> LocalValue(buf, KeyMode, 7, 1),
              elapsed |-> LocalValue(buf, KeyElapsed, 10, 0),
              ret |-> 1]

\* The seconds a game can have run when it is left.
ElapsedValues == {0, 75}

\* ESC, or the window closed, while the game is not over: the snapshot is
\* written and the session ends (running = 0, continuePlaying = 0).  The
\* locals game and game_over are dead from then on and keep their values.
SaveResume(elapsed) ==
    /\ AiMode(mode) \/ mode = 1
    /\ game_over = 0
    /\ resume' = [NoResume EXCEPT !.file = save_resume_game(game, mode, elapsed)]
    /\ mode' = 0
    /\ last' = Op("saveresume", mode, elapsed)
    /\ UNCHANGED <<game, region, game_over, score, file, pb>>

\* What run_game_internal does with a resumed game before its first frame:
\* game_over = game.finished, and against the AI a move of the AI when it
\* is White's turn.
ResumeStart(g, m) ==
    IF g.finished = 0 /\ AiMode(m) /\ g.current_player = 2
    THEN {[game |-> g2, game_over |-> g2.finished] : g2 \in ai_move(g, m - 1)}
    ELSE {[game |-> g, game_over |-> g.finished]}

\* "Continue the last game" of the main menu (run_resume_game): the snapshot
\* is loaded and a session starts on it.  The GameState given to
\* load_resume_game is not initialised; it is overwritten whenever the text
\* has a moves array, which every text considered here has.
LoadResume ==
    /\ mode = 0
    /\ resume.file # << >>
    /\ resume.on = 0
    /\ \E res \in {load_resume_game(resume.file, NoResume.game, 1, 0)} :
          /\ res.ret = 1
          /\ resume' = [resume EXCEPT !.on = 1, !.game = res.game,
                                      !.mode = res.mode, !.elapsed = res.elapsed]
          /\ mode' = res.mode
          /\ \E st \in ResumeStart(res.game, res.mode) :
                /\ game' = st.game
                /\ game_over' = st.game_over
          /\ last' = Op("loadresume", res.ret, 0)
    /\ UNCHANGED <<region, score, file, pb>>

(***************************************************************************)
(* Resume specification: sessions of every mode are played, left with a    *)
(* snapshot and continued from it (the exploration does not play on after  *)
(* that).                                                                  *)
(***************************************************************************)
ResumeOpenings(m) == IF m = 1 THEN {OpenLate} ELSE {<< >>}

ResumeInit ==
    /\ \E m \in 1 .. 4 :
          /\ mode = m
          /\ \E o \in ResumeOpenings(m) :
                /\ game = Replay(init_game, o)
                /\ region = RegionOf(o)
    /\ last = Op("init", 1, 0)
    /\ game_over = 0
    /\ score = NoScore
    /\ file = << >>
    /\ pb = NoPlayback
    /\ resume = NoResume

ResumeNext ==
    \/ resume.file = << >> /\ \E row \in Rows, col \in Rows : Click(row, col)
    \/ resume.file = << >> /\ PressUndo
    \/ \E elapsed \in ElapsedValues : SaveResume(elapsed)
    \/ LoadResume

ResumeSpec == ResumeInit /\ [][ResumeNext]_vars

(***************************************************************************)
(* Snapshot specification: the record file and the resume snapshot hold    *)
(* texts the program did not write from a game it played: any history of   *)
(* RecordMoves, and in the snapshot a current-player field that is         *)
(* missing, 1 or 2, or another number.  Both are loaded.                   *)
(***************************************************************************)

\* 0 .. 3 as the snapshot's "current" field, and no field at all.
CurrentTexts == {<< >>} \cup {FmtCurrent \o FormatInt(n) : n \in 0 .. 3}

SnapshotInit ==
    /\ game = init_game
    /\ region = [lo |-> 0, hi |-> 0]
    /\ last = Op("init", 1, 0)
    /\ mode = 0
    /\ game_over = 0
    /\ score = NoScore
    /\ pb = NoPlayback
    /\ \E ms \in RecordMoves, current \in CurrentTexts :
          /\ file = << save_record([init_game EXCEPT !.moves = ms], TimeUnknown) >>
          /\ resume = [NoResume EXCEPT !.file =
                          ResumeText([init_game EXCEPT !.moves = ms], 1, 0, current)]

SnapshotNext ==
    \/ LoadResume
    \/ \E index \in 0 .. Len(file) : Playback(index, -1)

SnapshotSpec == SnapshotInit /\ [][SnapshotNext]_vars

(***************************************************************************)
(* Vocabulary of the claims, stated on the board alone (not through        *)
(* check_win's counting loops).                                            *)
(***************************************************************************)
Stones(g) == {p \in Pos : g.cells[p] # CELL_EMPTY}

\* (row, col) lies on WIN_LENGTH consecutive in-board cells of one axis that
\* all hold colour.
OnRun(cells, row, col, colour) ==
    \E k \in 1 .. 4, s \in 0 .. (WIN_LENGTH - 1) :
        \A j \in 0 .. (WIN_LENGTH - 1) :
            LET r == row + (j - s) * WinDirs[k][1]
                c == col + (j - s) * WinDirs[k][2]
            IN  within_board(r, c) /\ cells[<<r, c>>] = colour

\* A stone of player on the Empty cell p would complete a run of WIN_LENGTH.
WinsAt(g, p, player) ==
    /\ g.cells[p] = CELL_EMPTY
    /\ OnRun([g.cells EXCEPT ![p] = ColourOf(player)], p[1], p[2], ColourOf(player))

\* Which precondition of place fails, in the order place_stone tests them.
FailCause(g, row, col) ==
    IF g.finished # 0 THEN "GameFinished"
    ELSE IF ~within_board(row, col) THEN "InvalidCoordinate"
    ELSE IF g.cells[<<row, col>>] # CELL_EMPTY THEN "CellOccupied"
    ELSE "none"

LastMove(g) == g.moves[Len(g.moves)]

\* The state before the last move of g was played (g reached by a place).
Before(g) == undo_last_move(g).game

(***************************************************************************)
(* C1.  In every reachable state the number of moves in the history equals *)
(* the number of non-Empty cells of the board.                             *)
(***************************************************************************)
C1_MovesEqualStones == Len(game.moves) = Cardinality(Stones(game))

\* An undo has just taken back a move and stones remain on the board.
C1_Witness ==
    /\ last.op = "undo" /\ last.ret = 1
    /\ Len(game.moves) > 0
    /\ Len(game.moves) = Cardinality(Stones(game))

(***************************************************************************)
(* C2.  A place whose precondition fails (game finished, coordinate out of *)
(* range, cell occupied) returns 0 and leaves the whole GameState as it    *)
(* was.                                                                    *)
(***************************************************************************)
C2_FailedPlaceNoMutation ==
    \A row \in Coords, col \in Coords :
        FailCause(game, row, col) # "none"
            => place_stone(game, row, col) = [game |-> game, ret |-> 0]

\* A place has just failed on a board that holds stones.
C2_Witness ==
    /\ last.op = "place" /\ last.ret = 0
    /\ Stones(game) # {}
    /\ game.finished = 0

(***************************************************************************)
(* C3.  A successful place ends the game with winner = the mover exactly   *)
(* when the stone just placed lies on a run of at least WIN_LENGTH stones  *)
(* of the mover's colour along one of the 4 axes; otherwise it declares no *)
(* winner.                                                                 *)
(***************************************************************************)
C3_WinExactlyOnRun ==
    \A row \in Rows, col \in Rows :
        LET res   == place_stone(game, row, col)
            mover == game.current_player
        IN  res.ret = 1 =>
              IF OnRun(res.game.cells, row, col, ColourOf(mover))
              THEN res.game.finished = 1 /\ res.game.winner = mover
              ELSE res.game.winner = 0

\* A place has just won the game by completing a run through its stone.
C3_Witness ==
    /\ last.op = "place" /\ last.ret = 1
    /\ game.finished = 1
    /\ game.winner = LastMove(game).player
    /\ OnRun(game.cells, LastMove(game).row, LastMove(game).col,
             ColourOf(game.winner))

(***************************************************************************)
(* C4.  For every reachable unfinished state S and every place that        *)
(* succeeds on S, an immediately following undo returns 1 and restores S   *)
(* exactly (board, history, current_player, finished, winner, undo_count). *)
(***************************************************************************)
C4_UndoRestores ==
    \A row \in Rows, col \in Rows :
        LET res == place_stone(game, row, col)
        IN  res.ret = 1 =>
              /\ undo_last_move(res.game) = [game |-> game, ret |-> 1]
              /\ undo_last_move(res.game).game.cells[<<row, col>>] = CELL_EMPTY

\* An undo has just taken back a move that was placed beyond the opening.
C4_Witness ==
    /\ last.op = "undo" /\ last.ret = 1
    /\ Len(game.moves) >= region.hi - MaxAhead
    /\ game.finished = 0 /\ game.winner = 0

(***************************************************************************)
(* C5.  The place that fills the last Empty cell ends the game: a draw     *)
(* (winner 0) when it completes no run of WIN_LENGTH for the mover, a win  *)
(* of the mover when it does.                                              *)
(***************************************************************************)
C5_FullBoard ==
    Len(game.moves) = BOARD_SIZE * BOARD_SIZE =>
        LET m == LastMove(game)
        IN  /\ game.finished = 1
            /\ IF OnRun(game.cells, m.row, m.col, ColourOf(m.player))
               THEN game.winner = m.player
               ELSE game.winner = 0

\* A place has just filled the board without completing a run: a draw.
C5_Witness ==
    /\ last.op = "place" /\ last.ret = 1
    /\ Stones(game) = Pos
    /\ game.finished = 1 /\ game.winner = 0

\* The last cell was filled by a stone that completes a run: the mover won.
C5_WitnessLastMoveWins ==
    /\ last.op = "place" /\ last.ret = 1
    /\ Stones(game) = Pos
    /\ game.finished = 1 /\ game.winner = LastMove(game).player

(***************************************************************************)
(* C6.  As claimed: after every operation of a session on its GameState (a *)
(* human click handled by the session loop, the AI's reply through         *)
(* place_stone, the undo key), winner # 0 implies finished = 1.            *)
(***************************************************************************)
C6_WinnerImpliesFinished == game.winner # 0 => game.finished = 1

\* A human click has just completed a run: the round is over and the winner
\* recorded, with finished still 0.
C6_Witness ==
    /\ last.op = "click" /\ last.ret = 1
    /\ game_over = 1
    /\ game.winner = LastMove(game).player
    /\ OnRun(game.cells, LastMove(game).row, LastMove(game).col,
             ColourOf(game.winner))
    /\ game.finished = 0

(***************************************************************************)
(* C7.  Difficulty 3: whenever some Empty cell completes a run of          *)
(* WIN_LENGTH for the side to move, ai_move plays a cell that wins for     *)
(* that side, also when some Empty cell would win for the opponent.        *)
(***************************************************************************)
C7_Tier3TakesWin ==
    (game.finished = 0 /\ \E p \in Pos : WinsAt(game, p, game.current_player))
        => \A g2 \in ai_move(game, 3) :
              /\ \E p \in Pos : /\ WinsAt(game, p, game.current_player)
                                /\ g2 = place_stone(game, p[1], p[2]).game
              /\ g2.finished = 1
              /\ g2.winner = game.current_player

\* ai_move(3) has just won although the opponent also had a winning cell.
C7_Witness ==
    /\ last.op = "ai" /\ last.arg = 3
    /\ game.finished = 1 /\ game.winner = LastMove(game).player
    /\ \E p \in Pos : WinsAt(Before(game), p, Opponent(game.winner))
    /\ \E p \in Pos : WinsAt(Before(game), p, game.winner)

(***************************************************************************)
(* C8.  Difficulty 3: whenever no Empty cell wins for the side to move but *)
(* some Empty cell completes a run of WIN_LENGTH for the opponent, ai_move *)
(* plays one of the cells at which the opponent would complete a run.      *)
(* Scenario (scaled from (9,9)..(9,13)): against Black on (2,1)..(2,3)     *)
(* with (2,0) and (2,4) Empty and no other run of Black's to complete,     *)
(* White plays (2,0) or (2,4).                                             *)
(***************************************************************************)
NoOwnWin(g) == \A p \in Pos : ~WinsAt(g, p, g.current_player)

BlackRunScenario(g) ==
    /\ g.finished = 0 /\ g.current_player = 2
    /\ \A c \in 1 .. 3 : g.cells[<<2, c>>] = CELL_BLACK
    /\ g.cells[<<2, 0>>] = CELL_EMPTY /\ g.cells[<<2, 4>>] = CELL_EMPTY
    /\ {p \in Pos : WinsAt(g, p, 1)} = {<<2, 0>>, <<2, 4>>}
    /\ NoOwnWin(g)

C8_Tier3Blocks ==
    /\ (game.finished = 0 /\ NoOwnWin(game)
          /\ \E p \in Pos : WinsAt(game, p, Opponent(game.current_player)))
        => \A g2 \in ai_move(game, 3) :
              \E p \in Pos : /\ WinsAt(game, p, Opponent(game.current_player))
                             /\ g2 = place_stone(game, p[1], p[2]).game
    /\ BlackRunScenario(game)
        => \A g2 \in ai_move(game, 3) :
              /\ Len(g2.moves) = Len(game.moves) + 1
              /\ LastMove(g2).row = 2 /\ LastMove(g2).col \in {0, 4}
              /\ LastMove(g2).player = 2

\* ai_move(3) has just answered the Black run (2,1)..(2,3) as White.
C8_Witness ==
    /\ last.op = "ai" /\ last.arg = 3
    /\ Len(game.moves) > 0
    /\ BlackRunScenario(Before(game))
    /\ LastMove(game).row = 2 /\ LastMove(game).col \in {0, 4}
    /\ game.cells[<<LastMove(game).row, LastMove(game).col>>] = CELL_WHITE

(***************************************************************************)
(* C9.  For a finished game reached by place, undo and AI moves, saved by  *)
(* save_record and loaded back, a playback that runs to its end (each move *)
(* played by its recorded mover into a fresh GameState) leaves a board     *)
(* identical to the final board, the same winner (both the one read from   *)
(* the file and the one the replayed moves produce) and the same moves;    *)
(* every number below BOARD_SIZE * BOARD_SIZE, of one digit or two, is     *)
(* read back from its printed form.                                        *)
(***************************************************************************)
PlaybackDone == pb.on = 1 /\ pb.stop = 0 /\ pb.i = Len(pb.game.moves)

C9_RoundTrip ==
    PlaybackDone =>
        /\ pb.temp.cells = game.cells
        /\ pb.temp.winner = game.winner
        /\ pb.game.winner = game.winner
        /\ Len(pb.temp.moves) = Len(game.moves)
        /\ pb.temp.moves = game.moves
        /\ pb.game.moves = game.moves
        /\ \A n \in 0 .. (BOARD_SIZE * BOARD_SIZE) :
              ScanInt(FormatInt(n) \o << "," >>, 1)
                  = [ok |-> 1, val |-> n, next |-> Len(FormatInt(n)) + 1]

\* A playback has just run to the end of a saved game that White won.
C9_Witness ==
    /\ PlaybackDone
    /\ last.op = "playback" /\ last.ret = 1
    /\ game.finished = 1 /\ game.winner = 2
    /\ Len(file) = 1
    /\ pb.temp.winner = 2
    /\ pb.i = Len(game.moves)

\* A playback has just run to the end of a saved drawn game (full board).
C9_WitnessDraw ==
    /\ PlaybackDone
    /\ last.op = "playback" /\ last.ret = 1
    /\ game.finished = 1 /\ game.winner = 0
    /\ pb.i = BOARD_SIZE * BOARD_SIZE

C11_UndoEmptyNoOp ==
    Len(game.moves) = 0 =>
        /\ undo_last_move(game).ret = 0
        /\ undo_last_move(game).game = game
        /\ undo_last_move(game).game.undo_count = game.undo_count

\* The undo key has just been pressed on an empty history that earlier undo
\* keys had emptied, and the undo it called returned 0.
C11_Witness ==
    /\ last.op = "undokey" /\ last.ret = 0
    /\ Len(game.moves) = 0
    /\ game.undo_count > 0
    /\ game.cells = init_game.cells

(***************************************************************************)
(* C12.  undo always reopens the game: a successful undo from any state,   *)
(* a finished one whose last move won or filled the board included, leaves *)
(* finished = 0 and winner = 0, and a place on the freed cell then         *)
(* succeeds for the side that made the undone move.                        *)
(***************************************************************************)
C12_UndoReopens ==
    Len(game.moves) > 0 =>
        LET m == LastMove(game)
            u == undo_last_move(game)
            p == place_stone(u.game, m.row, m.col)
        IN  /\ u.ret = 1
            /\ u.game.finished = 0
            /\ u.game.winner = 0
            /\ u.game.cells[<<m.row, m.col>>] = CELL_EMPTY
            /\ p.ret = 1
            /\ LastMove(p.game) = m
            /\ p.game.cells[<<m.row, m.col>>] = ColourOf(m.player)

\* An undo has just succeeded on a full board, that is on a finished game:
\* one cell is free again and the game is open.
C12_Witness ==
    /\ last.op = "undo" /\ last.ret = 1
    /\ Len(game.moves) = BOARD_SIZE * BOARD_SIZE - 1
    /\ Cardinality({p \in Pos : game.cells[p] = CELL_EMPTY}) = 1
    /\ game.finished = 0 /\ game.winner = 0

(***************************************************************************)
(* C13.  Turn order: a successful place that does not end the game toggles *)
(* current_player, a place that ends the game leaves current_player at the *)
(* mover, and undo sets current_player to the mover of the removed move    *)
(* (Black when the history becomes empty); consequently any two successive *)
(* moves of the history have opposite movers.                              *)
(***************************************************************************)
C13_TurnOrder ==
    /\ \A row \in Rows, col \in Rows :
          LET p == place_stone(game, row, col)
          IN  p.ret = 1 =>
                  /\ LastMove(p.game).player = game.current_player
                  /\ p.game.current_player =
                         IF p.game.finished = 1
                         THEN game.current_player
                         ELSE Opponent(game.current_player)
    /\ Len(game.moves) > 0 =>
          undo_last_move(game).game.current_player =
              IF Len(game.moves) = 1 THEN 1 ELSE LastMove(game).player
    /\ \A i \in 1 .. (Len(game.moves) - 1) :
          game.moves[i].player # game.moves[i + 1].player

\* An undo has just handed the turn back to White, the mover of the move it
\* removed, and a place by White on the reopened position would pass the
\* turn to Black.
C13_Witness ==
    /\ last.op = "undo" /\ last.ret = 1
    /\ Len(game.moves) >= 2
    /\ game.current_player = 2
    /\ LastMove(game).player = 1
    /\ \E row \in Rows, col \in Rows :
          /\ place_stone(game, row, col).ret = 1
          /\ place_stone(game, row, col).game.finished = 0
          /\ place_stone(game, row, col).game.current_player = 1

(***************************************************************************)
(* C14.  A win is only ever established by the most recently appended      *)
(* move: in every reachable state with winner # 0 the last move of the     *)
(* history was made by the winner and its cell lies on a contiguous run of *)
(* at least WIN_LENGTH stones of the winner's colour.                      *)
(***************************************************************************)
C14_WinByLastMove ==
    game.winner # 0 =>
        /\ Len(game.moves) > 0
        /\ LastMove(game).player = game.winner
        /\ game.cells[<<LastMove(game).row, LastMove(game).col>>] = ColourOf(game.winner)
        /\ OnRun(game.cells, LastMove(game).row, LastMove(game).col,
                 ColourOf(game.winner))

\* The AI has just played a move that completed White's diagonal and won
\* the game, while Black was one move from a run of its own.
C14_Witness ==
    /\ last.op = "ai" /\ last.ret = 1
    /\ game.finished = 1 /\ game.winner = 2
    /\ LastMove(game).player = 2
    /\ OnRun(game.cells, LastMove(game).row, LastMove(game).col, CELL_WHITE)
    /\ \E p \in Pos : WinsAt(game, p, 1)

(***************************************************************************)
(* C15.  In every reachable state every move recorded in the history has   *)
(* its row and its col in [0, BOARD_SIZE).                                 *)
(***************************************************************************)
C15_MovesInRange ==
    \A i \in 1 .. Len(game.moves) :
        /\ game.moves[i].row >= 0 /\ game.moves[i].row < BOARD_SIZE
        /\ game.moves[i].col >= 0 /\ game.moves[i].col < BOARD_SIZE

\* A place on the last cell of the last row has just succeeded, on a history
\* that also holds a move on the first cell of the first row.
C15_Witness ==
    /\ last.op = "place" /\ last.ret = 1
    /\ LastMove(game).row = BOARD_SIZE - 1
    /\ LastMove(game).col = BOARD_SIZE - 1
    /\ \E i \in 1 .. Len(game.moves) :
          game.moves[i].row = 0 /\ game.moves[i].col = 0

\* g2 is g after one place by the side to move on an Empty cell, or g itself.
OnePlaceOrNone(g, g2) ==
    \/ g2 = g
    \/ /\ Len(g2.moves) = Len(g.moves) + 1
       /\ LET m == LastMove(g2)
          IN  /\ within_board(m.row, m.col)
              /\ g.cells[<<m.row, m.col>>] = CELL_EMPTY
              /\ m.player = g.current_player
              /\ g2.cells = [g.cells EXCEPT ![<<m.row, m.col>>] = ColourOf(g.current_player)]
              /\ SubSeq(g2.moves, 1, Len(g.moves)) = g.moves
              /\ g2.undo_count = g.undo_count
              /\ g2 = place_stone(g, m.row, m.col).game

(***************************************************************************)
(* C16.  The AI engine has no side effect beyond its chosen cell: in every *)
(* step that is a call of ai_move, whatever the difficulty and the random  *)
(* draws, the game after the call differs from the game before it only by  *)
(* one place at the chosen cell; no other cell, no earlier history entry   *)
(* and not undo_count is changed (the win and block simulations of         *)
(* difficulty 3 leave nothing behind).                                     *)
(***************************************************************************)
C16_AiFrame == [][last'.op = "ai" => OnePlaceOrNone(game, game')]_vars

\* ai_move of difficulty 3 has just played a block it found by simulating
\* the opponent's move: the stone is the mover's, and the turn has passed.
C16_Witness ==
    /\ last.op = "ai" /\ last.arg = 3 /\ last.ret = 1
    /\ game.finished = 0
    /\ LastMove(game).player = Opponent(game.current_player)
    /\ WinsAt(Before(game), <<LastMove(game).row, LastMove(game).col>>,
              game.current_player)
    /\ OnePlaceOrNone(Before(game), game)

(***************************************************************************)
(* C17.  As claimed: a human click on cell (row, col) handled by the       *)
(* session loop leaves the GameState (board, history, current_player,      *)
(* finished, winner) exactly as place(row, col) would, for every           *)
(* unfinished state, the clicks that win or fill the board included.  (The *)
(* comparison is made where the handler's work is the human move alone,    *)
(* that is where it did not go on to call the AI.)                         *)
(***************************************************************************)
C17_ClickIsPlace ==
    game_over = 0 /\ game.finished = 0 =>
        \A row \in Rows, col \in Rows :
            \A res \in HumanClick(game, mode, row, col) :
                res.ret = 1 /\ Len(res.game.moves) = Len(game.moves) + 1
                    => res.game = place_stone(game, row, col).game

\* A human click has just filled the board without a run: the round is over
\* with finished = 0, where place on the same cell leaves finished = 1.
C17_Witness ==
    /\ last.op = "click" /\ last.ret = 1
    /\ game_over = 1
    /\ Len(game.moves) = BOARD_SIZE * BOARD_SIZE
    /\ game.winner = 0
    /\ game.finished = 0
    /\ place_stone(Before(game), LastMove(game).row, LastMove(game).col).game.finished = 1
    /\ [place_stone(Before(game), LastMove(game).row, LastMove(game).col).game
            EXCEPT !.finished = 0, !.undo_count = game.undo_count] = game

\* g with finished not set: the GameState a human click leaves when it ends
\* the round (the click handler sets game_over, not game.finished).
Unfinished(g) == [g EXCEPT !.finished = 0]

(***************************************************************************)
(* C18.  When the game is already finished, or the board has no Empty      *)
(* cell, ai_move at any difficulty produces no move and leaves the         *)
(* GameState unchanged.  The second case is also checked on the full board *)
(* with finished = 0, where ai_move runs past its first test and every     *)
(* tier finds no cell.                                                     *)
(***************************************************************************)
C18_AiNoMove ==
    /\ game.finished # 0 =>
          \A difficulty \in Difficulties : ai_move(game, difficulty) = {game}
    /\ (\A p \in Pos : game.cells[p] # CELL_EMPTY) =>
          \A difficulty \in Difficulties :
              /\ ai_move(game, difficulty) = {game}
              /\ ai_move(Unfinished(game), difficulty) = {Unfinished(game)}

\* ai_move has just been called on a full board and added no move.
C18_Witness ==
    /\ last.op = "ai" /\ last.ret = 0
    /\ \A p \in Pos : game.cells[p] # CELL_EMPTY
    /\ Len(game.moves) = BOARD_SIZE * BOARD_SIZE

(***************************************************************************)
(* C19.  A successful place(row, col) sets cell (row, col) to the colour   *)
(* of current_player (the mover) and appends exactly one Move              *)
(* {row, col, mover} at the end of the history; every other cell and every *)
(* earlier history entry is unchanged, so the history is in chronological  *)
(* play order.                                                             *)
(***************************************************************************)
C19_PlaceFrame ==
    \A row \in Coords, col \in Coords :
        LET p == place_stone(game, row, col)
        IN  p.ret = 1 =>
                /\ p.game.cells[<<row, col>>] = ColourOf(game.current_player)
                /\ \A q \in Pos \ {<<row, col>>} : p.game.cells[q] = game.cells[q]
                /\ Len(p.game.moves) = Len(game.moves) + 1
                /\ p.game.moves[Len(p.game.moves)] =
                       [row |-> row, col |-> col, player |-> game.current_player]
                /\ \A i \in 1 .. Len(game.moves) : p.game.moves[i] = game.moves[i]
                /\ p.game.undo_count = game.undo_count

\* A place has just succeeded on a game that goes on: its move is the last
\* of a history of several, in which an earlier move lies later in scan
\* order than a later one.
C19_Witness ==
    /\ last.op = "place" /\ last.ret = 1
    /\ game.finished = 0
    /\ Len(game.moves) >= 2
    /\ game.cells[<<LastMove(game).row, LastMove(game).col>>]
           = ColourOf(LastMove(game).player)
    /\ Before(game).cells[<<LastMove(game).row, LastMove(game).col>>] = CELL_EMPTY
    /\ \E i \in 1 .. (Len(game.moves) - 1) :
          game.moves[i].row * BOARD_SIZE + game.moves[i].col
              > LastMove(game).row * BOARD_SIZE + LastMove(game).col

\* The Empty cells on which a place by the side to move wins the game.
WinningCells(g) ==
    {p \in Pos : g.cells[p] = CELL_EMPTY
                 /\ place_stone(g, p[1], p[2]).game.winner = g.current_player}

\* p comes before q in row-major scan order.
ScansBefore(p, q) == p[1] < q[1] \/ (p[1] = q[1] /\ p[2] < q[2])

(***************************************************************************)
(* C20.  Tier 3 immediate win: when several Empty cells would each win for *)
(* the AI, the AI plays the first such cell in row-major scan order (rows  *)
(* ascending, columns ascending within a row).                             *)
(***************************************************************************)
C20_FirstWinningCell ==
    game.finished = 0 /\ WinningCells(game) # {} =>
        \A g2 \in ai_move(game, 3) :
            /\ Len(g2.moves) = Len(game.moves) + 1
            /\ g2.winner = game.current_player
            /\ <<LastMove(g2).row, LastMove(g2).col>> \in WinningCells(game)
            /\ \A q \in WinningCells(game) :
                  ~ ScansBefore(q, <<LastMove(g2).row, LastMove(g2).col>>)

\* ai_move of difficulty 3 has just won on the first of several winning
\* cells, another of which lies in a later row.
C20_Witness ==
    /\ last.op = "ai" /\ last.arg = 3 /\ last.ret = 1
    /\ game.finished = 1 /\ game.winner = LastMove(game).player
    /\ \E q \in WinningCells(Before(game)) : q[1] > LastMove(game).row
    /\ \A q \in WinningCells(Before(game)) :
          ~ ScansBefore(q, <<LastMove(game).row, LastMove(game).col>>)

\* The Empty cells on which a stone of the opponent of the side to move
\* completes a run of WIN_LENGTH.
BlockCells(g) == {p \in Pos : WinsAt(g, p, Opponent(g.current_player))}

(***************************************************************************)
(* C21.  Tier 3 immediate block: when no Empty cell wins for the AI and    *)
(* several Empty cells would each complete a run of WIN_LENGTH for the     *)
(* opponent, the AI plays the last such cell in row-major scan order, not  *)
(* the first.                                                              *)
(***************************************************************************)
C21_LastBlockingCell ==
    game.finished = 0 /\ NoOwnWin(game) /\ BlockCells(game) # {} =>
        \A g2 \in ai_move(game, 3) :
            /\ Len(g2.moves) = Len(game.moves) + 1
            /\ LastMove(g2).player = game.current_player
            /\ <<LastMove(g2).row, LastMove(g2).col>> \in BlockCells(game)
            /\ \A q \in BlockCells(game) :
                  ~ ScansBefore(<<LastMove(g2).row, LastMove(g2).col>>, q)

\* ai_move of difficulty 3 has just blocked on the last of several cells at
\* which the opponent would have completed a run; an earlier one is open.
C21_Witness ==
    /\ last.op = "ai" /\ last.arg = 3 /\ last.ret = 1
    /\ game.finished = 0
    /\ NoOwnWin(Before(game))
    /\ Cardinality(BlockCells(Before(game))) >= 2
    /\ <<LastMove(game).row, LastMove(game).col>> \in BlockCells(Before(game))
    /\ \E q \in BlockCells(Before(game)) :
          ScansBefore(q, <<LastMove(game).row, LastMove(game).col>>)

\* L(cell) of the threat stage for the side to move: the longest run the
\* opponent would have through p, over the 4 axes.
ThreatLen(g, p) ==
    LET opp == ColourOf(Opponent(g.current_player))
    IN  Max(Max(RunAt(g.cells, p[1], p[2], 1, opp), RunAt(g.cells, p[1], p[2], 2, opp)),
            Max(RunAt(g.cells, p[1], p[2], 3, opp), RunAt(g.cells, p[1], p[2], 4, opp)))

EmptyCells(g) == {p \in Pos : g.cells[p] = CELL_EMPTY}

\* The Empty cells whose ThreatLen is the largest.
ThreatCells(g) ==
    {p \in EmptyCells(g) : \A q \in EmptyCells(g) : ThreatLen(g, q) <= ThreatLen(g, p)}

\* No Empty cell wins for the side to move or for its opponent.
NoWinEitherSide(g) == NoOwnWin(g) /\ BlockCells(g) = {}

(***************************************************************************)
(* C22.  Tier 3 threat mitigation: when no Empty cell wins for the AI or   *)
(* for the opponent, let L(cell) be the maximum over the 4 axes of 1 plus  *)
(* the number of contiguous opponent stones adjoining the cell in both     *)
(* directions.  If the maximum of L over the Empty cells is at least       *)
(* WIN_LENGTH - 2, the AI plays the first cell in row-major order that     *)
(* attains it; if it is below, this stage plays nothing and the move is    *)
(* the heuristic fallback's.                                               *)
(***************************************************************************)
C22_ThreatMitigation ==
    game.finished = 0 /\ EmptyCells(game) # {} /\ NoWinEitherSide(game) =>
        IF \E p \in EmptyCells(game) : ThreatLen(game, p) >= WIN_LENGTH - 2
        THEN \A g2 \in ai_move(game, 3) :
                /\ Len(g2.moves) = Len(game.moves) + 1
                /\ LastMove(g2).player = game.current_player
                /\ <<LastMove(g2).row, LastMove(g2).col>> \in ThreatCells(game)
                /\ \A q \in ThreatCells(game) :
                      ~ ScansBefore(q, <<LastMove(g2).row, LastMove(g2).col>>)
        ELSE ai_move(game, 3) = HeuristicOutcomes(game, 3)

\* ai_move of difficulty 3 has just played the first cell of the longest
\* opponent run: other cells attain the same length later in the scan, and
\* Empty cells of a shorter one come before it.
C22_Witness ==
    /\ last.op = "ai" /\ last.arg = 3 /\ last.ret = 1
    /\ NoWinEitherSide(Before(game))
    /\ <<LastMove(game).row, LastMove(game).col>> \in ThreatCells(Before(game))
    /\ ThreatLen(Before(game), <<LastMove(game).row, LastMove(game).col>>)
           >= WIN_LENGTH - 2
    /\ Cardinality(ThreatCells(Before(game))) >= 2
    /\ \E q \in EmptyCells(Before(game)) :
          /\ ScansBefore(q, <<LastMove(game).row, LastMove(game).col>>)
          /\ q \notin ThreatCells(Before(game))

\* The un-jittered Tier-2 score of cell p for the side to move.
ScoreOf(g, p) == evaluate_pos(g, p[1], p[2], g.current_player)

\* The Empty cells of g with their un-jittered scores: pairs <<cell, score>>.
Scores(g) == {<<p, ScoreOf(g, p)>> : p \in EmptyCells(g)}

\* The pairs of sc the scoring loops can choose with a per-cell jitter below
\* jitter: a cell is chosen when the jitters can be drawn so that its score
\* plus jitter exceeds that of every earlier Empty cell and is not exceeded
\* by that of any later one.
JitterChoices(sc, jitter) ==
    {a \in sc :
        \E ja \in 0 .. (jitter - 1) :
            \A b \in sc \ {a} :
                IF ScansBefore(b[1], a[1])
                THEN b[2] < a[2] + ja
                ELSE b[2] <= a[2] + ja}

\* The largest of the scores of sc.
MaxOf(sc) == CHOOSE s \in {a[2] : a \in sc} : \A b \in sc : b[2] <= s

\* The largest un-jittered score over the Empty cells.
MaxScore(g) == MaxOf(Scores(g))

C24_Tier2 ==
    game.finished = 0 /\ EmptyCells(game) # {} =>
        \E sc \in {Scores(game)}, out \in {ai_move(game, 2)} :
            /\ out = {place_stone(game, a[1][1], a[1][2]).game :
                          a \in JitterChoices(sc, 5)}
            /\ \A g2 \in out :
                   /\ Len(g2.moves) = Len(game.moves) + 1
                   /\ LastMove(g2).player = game.current_player
                   /\ \E a \in sc :
                          /\ a[1] = <<LastMove(g2).row, LastMove(g2).col>>
                          /\ a[2] >= MaxOf(sc) - 4

\* ai_move of difficulty 2 has just played a cell whose score is below the
\* best one: its jitter made up for the difference.
C24_Witness ==
    /\ last.op = "ai" /\ last.arg = 2 /\ last.ret = 1
    /\ ScoreOf(Before(game), <<LastMove(game).row, LastMove(game).col>>)
           < MaxScore(Before(game))
    /\ ScoreOf(Before(game), <<LastMove(game).row, LastMove(game).col>>)
           >= MaxScore(Before(game)) - 4

\* The number of contiguous cells of colour met from p, p excluded, going in
\* direction d (sign 1) or against it (sign -1).
Adjoining(cells, p, d, sign, colour) ==
    Cardinality({k \in 1 .. BOARD_SIZE :
        \A i \in 1 .. k :
            /\ within_board(p[1] + sign * i * d[1], p[2] + sign * i * d[2])
            /\ cells[<<p[1] + sign * i * d[1], p[2] + sign * i * d[2]>>] = colour})

\* self_run / opp_run of cell p on the axis of direction d.
AxisRun(cells, p, d, colour) ==
    1 + Adjoining(cells, p, d, 1, colour) + Adjoining(cells, p, d, -1, colour)

ScoreF(n) == IF n >= WIN_LENGTH THEN 100000 ELSE 10 * n * n

ScoreG(n) == IF n >= WIN_LENGTH THEN 90000 ELSE 9 * n * n

\* f(self_run) + g(opp_run) of cell p on the axis of direction d.
AxisTerm(cells, p, d, side) ==
    ScoreF(AxisRun(cells, p, d, ColourOf(side)))
      + ScoreG(AxisRun(cells, p, d, ColourOf(Opponent(side))))

\* The score of the claim for cell p and side: the sum over the 4 axes.
ClaimedScore(cells, p, side) ==
    AxisTerm(cells, p, <<1, 0>>, side) + AxisTerm(cells, p, <<0, 1>>, side)
      + AxisTerm(cells, p, <<1, 1>>, side) + AxisTerm(cells, p, <<1, -1>>, side)

(***************************************************************************)
(* C25.  The Tier-2 score of an Empty cell for a side is the sum over the  *)
(* 4 axes of f(self_run) + g(opp_run), where self_run is 1 plus the        *)
(* contiguous own stones adjoining the cell in both directions on that     *)
(* axis, opp_run is 1 plus the contiguous opponent stones adjoining it,    *)
(* f(n) = 100000 if n >= WIN_LENGTH else 10*n*n, and g(n) = 90000 if       *)
(* n >= WIN_LENGTH else 9*n*n; the score is always positive (at least 76)  *)
(* and depends only on the board and the side (ClaimedScore is computed    *)
(* from the cells, the cell and the side alone).                           *)
(***************************************************************************)
C25_Score ==
    [][last'.op = "score" =>
          /\ last'.ret = ClaimedScore(game.cells, <<last'.arg[1], last'.arg[2]>>,
                                      last'.arg[3])
          /\ last'.ret >= 76]_vars

\* evaluate_pos has just scored a cell with a run of WIN_LENGTH of the side
\* (100000 and more), on a board where another cell scores a run of
\* WIN_LENGTH of the opponent's for it (90000 and more, below 100000).
C25_Witness ==
    /\ last.op = "score"
    /\ last.ret >= 100000
    /\ \E q \in EmptyCells(game) :
          \E v \in {evaluate_pos(game, q[1], q[2], last.arg[3])} :
              v >= 90000 /\ v < 100000

\* The index of the Empty cell p among the Empty cells in row-major order,
\* from 0.
EmptyIndex(g, p) == Cardinality({q \in EmptyCells(g) : ScansBefore(q, p)})

(***************************************************************************)
(* C26.  Tier 1 (difficulty <= 1) on an unfinished game with k >= 1 Empty  *)
(* cells draws an index in 0 .. k-1 and plays the Empty cell at that index *)
(* in row-major order: the played cell is always Empty, and every Empty    *)
(* cell is a possible choice.                                              *)
(***************************************************************************)
C26_Tier1 ==
    game.finished = 0 /\ EmptyCells(game) # {} =>
        /\ \A p \in EmptyCells(game) :
              /\ EmptyIndex(game, p) \in 0 .. (Cardinality(EmptyCells(game)) - 1)
              /\ random_move(game, EmptyIndex(game, p)) =
                     [game |-> place_stone(game, p[1], p[2]).game, ret |-> 1]
        /\ \A difficulty \in {0, 1} :
              \E out \in {ai_move(game, difficulty)} :
                 /\ out = {place_stone(game, p[1], p[2]).game : p \in EmptyCells(game)}
                 /\ \A g2 \in out :
                        /\ Len(g2.moves) = Len(game.moves) + 1
                        /\ game.cells[<<LastMove(g2).row, LastMove(g2).col>>]
                               = CELL_EMPTY

\* ai_move of difficulty 1 has just played an Empty cell that was neither
\* the first nor the last of the scan, passing over a cell that would have
\* won the game.
C26_Witness ==
    /\ last.op = "ai" /\ last.arg = 1 /\ last.ret = 1
    /\ game.finished = 0
    /\ \E q \in EmptyCells(Before(game)) :
          ScansBefore(q, <<LastMove(game).row, LastMove(game).col>>)
    /\ \E q \in EmptyCells(Before(game)) :
          ScansBefore(<<LastMove(game).row, LastMove(game).col>>, q)
    /\ ~ NoOwnWin(Before(game))

\* g with its last n moves taken back: their cells Empty again, the history
\* cut, the game open, the mover of the earliest of them to move, and one
\* more logical undo counted.
TakenBack(g, n) ==
    [g EXCEPT !.moves = SubSeq(g.moves, 1, Len(g.moves) - n),
              !.cells = [p \in Pos |->
                            IF \E i \in (Len(g.moves) - n + 1) .. Len(g.moves) :
                                   p = <<g.moves[i].row, g.moves[i].col>>
                            THEN CELL_EMPTY ELSE g.cells[p]],
              !.current_player = g.moves[Len(g.moves) - n + 1].player,
              !.finished = 0,
              !.winner = 0,
              !.undo_count = g.undo_count + 1]

(***************************************************************************)
(* C27.  A logical undo request while the game is not over: against the AI *)
(* (modes 2..4) it takes back one move, and a second one only if           *)
(* current_player is then not Black; when at least one move was removed,   *)
(* current_player is Black afterwards, one or two moves were removed and   *)
(* undo_count grew by exactly 1; on an empty history nothing changes.  In  *)
(* two-player mode one request removes exactly one move.                   *)
(***************************************************************************)
C27_UndoRequest ==
    [][last'.op = "undokey" =>
          IF Len(game.moves) = 0
          THEN game' = game /\ last'.ret = 0
          ELSE /\ last'.ret = 1
               /\ game'.undo_count = game.undo_count + 1
               /\ IF AiMode(mode)
                  THEN /\ game' = IF LastMove(game).player = 1
                                  THEN TakenBack(game, 1)
                                  ELSE TakenBack(game, 2)
                       /\ game'.current_player = 1
                       /\ Len(game.moves) - Len(game'.moves) \in {1, 2}
                  ELSE /\ game' = TakenBack(game, 1)
                       /\ Len(game.moves) - Len(game'.moves) = 1]_vars

\* Against the AI an undo request has just taken back two moves at once (the
\* history is shorter than any single take-back leaves it), Black is to move
\* and stones remain on the board.
C27_Witness ==
    /\ last.op = "undokey" /\ last.ret = 1
    /\ AiMode(mode)
    /\ Len(game.moves) < region.lo
    /\ Len(game.moves) > 0
    /\ game.current_player = 1
    /\ game.undo_count = 1

(***************************************************************************)
(* C28.  During the replay of a record each move is placed with            *)
(* current_player set to the move's recorded mover, not by toggling: after *)
(* replaying move i the cell (row_i, col_i) holds the recorded mover's     *)
(* colour and the replayed history ends with that move, even when the      *)
(* recorded movers do not alternate.                                       *)
(***************************************************************************)
C28_ReplayMover ==
    pb.on = 1 =>
        /\ \A i \in 1 .. Len(pb.game.moves) :
              \E t \in {playback_one_game(pb.game, i)} :
                  /\ t.i = i
                  /\ Len(t.temp.moves) = i
                  /\ LastMove(t.temp) = pb.game.moves[i]
                  /\ t.temp.cells[<<pb.game.moves[i].row, pb.game.moves[i].col>>]
                         = ColourOf(pb.game.moves[i].player)
        /\ \A j \in 1 .. pb.i :
              pb.temp.cells[<<pb.game.moves[j].row, pb.game.moves[j].col>>]
                  = ColourOf(pb.game.moves[j].player)

\* A playback has run to the end of a record of three moves that White
\* opened and whose two last moves are both Black's: the board shows the
\* three stones in the recorded colours.
C28_Witness ==
    /\ last.op = "playback" /\ last.ret = 1
    /\ pb.on = 1 /\ pb.stop = 0 /\ pb.i = 3
    /\ Len(pb.game.moves) = 3
    /\ pb.game.moves[1].player = 2
    /\ pb.game.moves[2].player = 1
    /\ pb.game.moves[3].player = 1
    /\ \A j \in 1 .. 3 :
          pb.temp.cells[<<pb.game.moves[j].row, pb.game.moves[j].col>>]
              = ColourOf(pb.game.moves[j].player)

(***************************************************************************)
(* C29.  Saving a resume snapshot of an unfinished game and loading it     *)
(* back reproduces the move history in order with each move's mover, the   *)
(* board, current_player, undo_count, mode and elapsed seconds unchanged,  *)
(* with finished = 0 and winner = 0: the text a session writes when it is  *)
(* left reads back as the game, mode and seconds it was written from, and  *)
(* the session continued from the snapshot starts on that game.            *)
(***************************************************************************)
C29_ResumeRoundTrip ==
    [][/\ last'.op = "saveresume" =>
             \E res \in {load_resume_game(resume'.file, NoResume.game, 1, 0)} :
                 /\ res.ret = 1
                 /\ res.game.moves = game.moves
                 /\ res.game.cells = game.cells
                 /\ res.game.current_player = game.current_player
                 /\ res.game.undo_count = game.undo_count
                 /\ res.game.finished = 0
                 /\ res.game.winner = 0
                 /\ res.mode = mode
                 /\ res.elapsed = last'.arg
       /\ last'.op = "loadresume" =>
             /\ resume'.game = game
             /\ resume'.game.finished = 0
             /\ resume'.game.winner = 0
             /\ game' = game
             /\ mode' = last.ret
             /\ resume'.mode = last.ret
             /\ resume'.elapsed = last.arg
             /\ game_over' = 0]_vars

\* A session against the AI, left after 75 seconds with stones of both
\* colours on the board and an undo counted, has just been continued from
\* its snapshot.
C29_Witness ==
    /\ last.op = "loadresume" /\ last.ret = 1
    /\ resume.on = 1
    /\ AiMode(mode)
    /\ resume.mode = mode
    /\ resume.elapsed = 75
    /\ resume.game = game
    /\ game.undo_count = 1
    /\ Len(game.moves) = 2
    /\ game.current_player = 1

\* The number a snapshot text carries as its explicit current-player field;
\* 0 when it carries none.
ExplicitCurrent(text) ==
    LET at == {p \in 1 .. Len(text) : HasPrefixAt(text, p, KeyCurrent)}
    IN  IF at = {}
        THEN 0
        ELSE ScanInt(text, (CHOOSE p \in at : \A q \in at : p <= q) + Len(KeyCurrent)).val

\* The side to move after n moves when the sides alternate from Black.
ByParity(n) == IF n % 2 = 0 THEN 1 ELSE 2

(***************************************************************************)
(* C30.  As claimed: when a loaded record or snapshot carries no valid     *)
(* explicit current-player field, current_player is derived from the       *)
(* parity of the loaded move count (Black if it is even, White if it is    *)
(* odd); a snapshot's explicit field, 1 or 2, takes precedence over        *)
(* parity.                                                                 *)
(***************************************************************************)
C30_CurrentPlayer ==
    /\ pb.on = 1 => pb.game.current_player = ByParity(Len(pb.game.moves))
    /\ resume.on = 1 =>
          resume.game.current_player =
              IF ExplicitCurrent(resume.file) \in {1, 2}
              THEN ExplicitCurrent(resume.file)
              ELSE ByParity(Len(resume.game.moves))

\* A snapshot with one move and no current-player field has just been
\* loaded: Black is to move, where the parity of the move count gives White.
C30_Witness ==
    /\ last.op = "loadresume" /\ last.ret = 1
    /\ resume.on = 1
    /\ strstr(resume.file, 1, KeyCurrent) = 0
    /\ Len(resume.game.moves) = 1
    /\ resume.game.current_player = 1
    /\ ByParity(Len(resume.game.moves)) = 2

\* The GameState the detector is called on for a stone of the side to move
\* on the Empty cell p: the stone is on the board and in the history, and no
\* other field has been touched yet.
Handed(g, p) ==
    [g EXCEPT !.cells[p] = ColourOf(g.current_player),
              !.moves = Append(g.moves,
                  [row |-> p[1], col |-> p[2], player |-> g.current_player])]

(***************************************************************************)
(* C31.  As claimed: the win detector is a pure function of the board and  *)
(* the last-played cell.  A call on (row, col) changes no cell, no history *)
(* entry and no field of the GameState (finished, winner, current_player), *)
(* whether or not it reports a win, and for an Empty anchor cell it        *)
(* reports no win.  The calls considered are those on the state as it is   *)
(* and those on the state with the stone just put down, where a win can be *)
(* reported.                                                               *)
(***************************************************************************)
C31_DetectorPure ==
    \A p \in Pos :
        /\ check_win(game, p[1], p[2]).game = game
        /\ game.cells[p] = CELL_EMPTY => check_win(game, p[1], p[2]).ret = 0
        /\ game.finished = 0 /\ game.cells[p] = CELL_EMPTY =>
              check_win(Handed(game, p), p[1], p[2]).game = Handed(game, p)

\* A place has just won the game: on the state with the winning stone put
\* down and winner still 0, the detector reports the win and leaves winner
\* set to the stone's colour; cells, history and the other fields are as
\* they were.
C31_Witness ==
    /\ last.op = "place" /\ last.ret = 1
    /\ game.finished = 1 /\ game.winner # 0
    /\ \E g1 \in {Handed(Before(game), <<LastMove(game).row, LastMove(game).col>>)} :
          \E cw \in {check_win(g1, LastMove(game).row, LastMove(game).col)} :
              /\ g1.winner = 0
              /\ cw.ret = 1
              /\ cw.game.winner = ColourOf(LastMove(game).player)
              /\ cw.game # g1
              /\ cw.game = [g1 EXCEPT !.winner = cw.game.winner]

(***************************************************************************)
(* C32.  Board/history consistency: in every state reachable from a new    *)
(* game by place and undo, for each move of the history the board cell at  *)
(* its (row, col) holds the colour of the move's mover, and no two moves   *)
(* of the history name the same cell.                                      *)
(***************************************************************************)
C32_BoardMatchesHistory ==
    /\ \A i \in 1 .. Len(game.moves) :
          game.cells[<<game.moves[i].row, game.moves[i].col>>]
              = ColourOf(game.moves[i].player)
    /\ \A i, j \in 1 .. Len(game.moves) :
          i # j => <<game.moves[i].row, game.moves[i].col>>
                       # <<game.moves[j].row, game.moves[j].col>>

\* A place has just succeeded after an undo (the history is as long as the
\* prepared position's again): the history holds stones of both colours and
\* the played cell is named once.
C32_Witness ==
    /\ last.op = "place" /\ last.ret = 1
    /\ Len(game.moves) = region.hi - MaxAhead
    /\ Len(game.moves) >= 2
    /\ \E i, j \in 1 .. Len(game.moves) : game.moves[i].player # game.moves[j].player
    /\ game.cells[<<LastMove(game).row, LastMove(game).col>>]
           = ColourOf(LastMove(game).player)
    /\ Cardinality({i \in 1 .. Len(game.moves) :
                      game.moves[i].row = LastMove(game).row
                          /\ game.moves[i].col = LastMove(game).col}) = 1

\* Some stone of the board lies on a run of WIN_LENGTH or more stones of its
\* colour along one of the 4 axes.
SomeRun(g) ==
    \E p \in Pos :
        g.cells[p] # CELL_EMPTY /\ OnRun(g.cells, p[1], p[2], g.cells[p])

(***************************************************************************)
(* C33.  In every unfinished state reachable from a new game by place and  *)
(* undo, no contiguous same-colour run of WIN_LENGTH or more stones exists *)
(* anywhere on the board along any of the 4 axes, although the detector    *)
(* only ever inspects the runs through the last-played cell.               *)
(***************************************************************************)
C33_NoRunWhileUnfinished == game.finished = 0 => ~SomeRun(game)

\* An undo has just taken back the last move of a game, after a place that
\* followed the prepared position; the game is open, no run is on the board
\* and the side to move can complete one at once.
C33_Witness ==
    /\ last.op = "undo" /\ last.ret = 1
    /\ Len(game.moves) = region.hi - MaxAhead
    /\ game.finished = 0
    /\ ~SomeRun(game)
    /\ \E p \in Pos :
          /\ WinsAt(game, p, game.current_player)
          /\ SomeRun(place_stone(game, p[1], p[2]).game)

(***************************************************************************)
(* C34.  Parity: in every state reachable from a new game by place and     *)
(* undo, the i-th move of the history (counting from 0) was made by Black  *)
(* iff i is even, and whenever the game is not finished current_player is  *)
(* Black iff the move count is even.                                       *)
(***************************************************************************)
C34_Parity ==
    /\ \A i \in 0 .. (Len(game.moves) - 1) :
          game.moves[i + 1].player = 1 <=> i % 2 = 0
    /\ \A i \in 1 .. Len(game.moves) : game.moves[i].player \in Players
    /\ game.finished = 0 =>
          /\ game.current_player \in Players
          /\ game.current_player = 1 <=> Len(game.moves) % 2 = 0

\* An undo has just taken back a move of White that followed the prepared
\* position: the count is odd, White is to move again and can complete a
\* run at once.
C34_Witness ==
    /\ last.op = "undo" /\ last.ret = 1
    /\ game.finished = 0
    /\ Len(game.moves) % 2 = 1
    /\ game.current_player = 2
    /\ \E p \in Pos : WinsAt(game, p, 2)
    /\ Len(game.moves) = region.hi - MaxAhead

(***************************************************************************)
(* C35.  In every state reachable from a new game by place and undo,       *)
(* finished = 1 implies that winner is not 0 or the move count equals      *)
(* BOARD_SIZE * BOARD_SIZE, and every unfinished state has at least one    *)
(* Empty cell.                                                             *)
(***************************************************************************)
C35_FinishedHasCause ==
    /\ game.finished \in {0, 1}
    /\ game.finished = 1 =>
          game.winner # 0 \/ Len(game.moves) = BOARD_SIZE * BOARD_SIZE
    /\ game.finished = 0 => \E p \in Pos : game.cells[p] = CELL_EMPTY

\* A place has just filled the board without a run: the game is finished
\* with winner 0 and BOARD_SIZE * BOARD_SIZE moves.
C35_Witness ==
    /\ last.op = "place" /\ last.ret = 1
    /\ game.finished = 1
    /\ game.winner = 0
    /\ Len(game.moves) = BOARD_SIZE * BOARD_SIZE
    /\ \A p \in Pos : game.cells[p] # CELL_EMPTY

\* g2 is g after one successful place of the side to move on an Empty cell.
OnePlace(g, g2) ==
    /\ Len(g2.moves) = Len(g.moves) + 1
    /\ LastMove(g2).player = g.current_player
    /\ g.cells[<<LastMove(g2).row, LastMove(g2).col>>] = CELL_EMPTY
    /\ place_stone(g, LastMove(g2).row, LastMove(g2).col).ret = 1
    /\ g2 = place_stone(g, LastMove(g2).row, LastMove(g2).col).game

(***************************************************************************)
(* C36.  For every difficulty, ai_move on an unfinished game with at least *)
(* one Empty cell performs exactly one successful place for current_player *)
(* on a previously Empty cell: the move count grows by exactly 1 and the   *)
(* new last move is by the side that was to move.  (Difficulties below 1   *)
(* and above 3, which no session passes, take the branches of 1 and 3.)    *)
(***************************************************************************)
C36_AiPlacesOnce ==
    [][last'.op = "ai" /\ game.finished = 0 /\ EmptyCells(game) # {} =>
          /\ last'.ret = 1
          /\ OnePlace(game, game')
          /\ last'.arg = 1 => ai_move(game, 0) = ai_move(game, 1)
          /\ last'.arg = 3 => ai_move(game, 4) = ai_move(game, 3)]_vars

\* ai_move has just played the last Empty cell of the board without
\* completing a run: one stone was added and the game is a draw.
C36_Witness ==
    /\ last.op = "ai" /\ last.ret = 1
    /\ OnePlace(Before(game), game)
    /\ Len(game.moves) = BOARD_SIZE * BOARD_SIZE
    /\ game.finished = 1 /\ game.winner = 0

\* The i-th move from the end of the history of g (1 = the last one).
MoveFromEnd(g, i) == g.moves[Len(g.moves) + 1 - i]

\* g2 is g after a Black stone on an Empty cell answered by one White stone
\* on another Empty cell, with Black to move again.
HumanThenAi(g, g2) ==
    /\ Len(g2.moves) = Len(g.moves) + 2
    /\ SubSeq(g2.moves, 1, Len(g.moves)) = g.moves
    /\ MoveFromEnd(g2, 2).player = 1
    /\ MoveFromEnd(g2, 1).player = 2
    /\ g.cells[<<MoveFromEnd(g2, 2).row, MoveFromEnd(g2, 2).col>>] = CELL_EMPTY
    /\ g.cells[<<MoveFromEnd(g2, 1).row, MoveFromEnd(g2, 1).col>>] = CELL_EMPTY
    /\ g2.cells[<<MoveFromEnd(g2, 2).row, MoveFromEnd(g2, 2).col>>] = CELL_BLACK
    /\ g2.cells[<<MoveFromEnd(g2, 1).row, MoveFromEnd(g2, 1).col>>] = CELL_WHITE
    /\ Cardinality({p \in Pos : g2.cells[p] # g.cells[p]}) = 2

(***************************************************************************)
(* C37.  In human-vs-AI mode, once the session loop has finished handling  *)
(* a human (Black) click on an Empty cell, either the game is over or it   *)
(* is Black's turn again: a non-terminal human move is always answered by  *)
(* exactly one AI (White) stone before the next event is handled.          *)
(***************************************************************************)
C37_ClickAnswered ==
    [][/\ last'.op = "click" /\ last'.ret = 1
       /\ AiMode(mode) /\ game.current_player = 1
       => /\ game_over' = 1 \/ game'.current_player = 1
          /\ Len(game'.moves) = Len(game.moves) + 1
                => /\ game_over' = 1
                   /\ \/ game'.winner = 1
                      \/ Len(game'.moves) = BOARD_SIZE * BOARD_SIZE
          /\ Len(game'.moves) # Len(game.moves) + 1
                => /\ HumanThenAi(game, game')
                   /\ game_over' = game'.finished]_vars

\* Against the strongest AI a Black click has just been answered by one
\* White stone and the game goes on with Black to move.
C37_Witness ==
    /\ last.op = "click" /\ last.ret = 1
    /\ mode = 4
    /\ game_over = 0 /\ game.finished = 0
    /\ game.current_player = 1
    /\ Len(game.moves) >= 2
    /\ HumanThenAi(Before(Before(game)), game)

(***************************************************************************)
(* C38.  Under place alone (no undo) every game terminates: each           *)
(* successful place raises the move count by exactly 1, no place succeeds  *)
(* once finished is set, and finished is set no later than the N*N-th      *)
(* successful place.                                                       *)
(***************************************************************************)
C38_PlaceTerminates ==
    /\ [][/\ last'.ret = 1 => /\ Len(game'.moves) = Len(game.moves) + 1
                              /\ game.finished = 0
          /\ last'.ret = 0 => game' = game
          /\ game.finished = 1 => game' = game
          /\ Len(game'.moves) = BOARD_SIZE * BOARD_SIZE => game'.finished = 1]_vars
    /\ <>[](game.finished = 1)

\* The last Empty cell has just been placed on without completing a run:
\* the N*N-th successful place set finished.
C38_Witness ==
    /\ last.op = "place" /\ last.ret = 1
    /\ mode = 0 /\ region.hi = BOARD_SIZE * BOARD_SIZE
    /\ Len(game.moves) = BOARD_SIZE * BOARD_SIZE
    /\ Len(game.moves) >= region.lo + 4
    /\ game.finished = 1 /\ game.winner = 0

\* Tier 3 decides g in one of its first three stages: some Empty cell wins
\* for the side to move, or for its opponent, or carries an opponent run of
\* at least WIN_LENGTH - 2.
EarlyStage(g) ==
    \/ WinningCells(g) # {}
    \/ BlockCells(g) # {}
    \/ \E p \in EmptyCells(g) : ThreatLen(g, p) >= WIN_LENGTH - 2

\* The cells ai_move of difficulty 3 can play on g, over the values of
\* rand().
Tier3Cells(g) ==
    {<<LastMove(g2).row, LastMove(g2).col>> : g2 \in ai_move(g, 3)}

\* A game that shares with g its board and its side to move and nothing
\* else: no history, no undo count.
BoardAndTurn(g) ==
    [init_game EXCEPT !.cells = g.cells, !.current_player = g.current_player]

(***************************************************************************)
(* C39.  Whenever Tier 3 decides in one of its first three stages          *)
(* (immediate win, immediate block, threat of length >= WIN_LENGTH-2), the *)
(* chosen cell is a function of the board and the side to move only: two   *)
(* runs of ai_move from the same state with different random values play   *)
(* the same cell.                                                          *)
(***************************************************************************)
C39_EarlyStagesDeterministic ==
    game.finished = 0 /\ EarlyStage(game) =>
        LET cells == Tier3Cells(game)
        IN  /\ Cardinality(cells) = 1
            /\ Tier3Cells(BoardAndTurn(game)) = cells

\* ai_move of difficulty 3 has just played a position with a history that
\* its threat stage decided: the one cell it could play, where the scored
\* choice of the last stage would have played another.
C39_Witness ==
    /\ last.op = "ai" /\ last.arg = 3 /\ last.ret = 1
    /\ EarlyStage(Before(game))
    /\ NoWinEitherSide(Before(game))
    /\ \E g2 \in HeuristicOutcomes(Before(game), 3) : LastMove(g2) # LastMove(game)
    /\ Tier3Cells(Before(game)) = {<<LastMove(game).row, LastMove(game).col>>}
    /\ Before(game).moves # << >>

====
